---- MODULE Spec2Model ----
(***************************************************************************)
(* A model of the gamepad repository: the shared-AST decoder               *)
(* (gamepad/coq/constr_decode.py), the lookup environments                 *)
(* (gamepad/lib/myenv.py), the tactic tree (ml4tputils/recon/tactr.py),     *)
(* the rewrite proof-search harness (ml4tputils/ml/rewrite/solver.py), the *)
(* rewrite-dataset preparation (ml4tputils/ml/rewrite/dataset_prep.py) and *)
(* the folder of tactic states (gamepad/ml/fold_model.py).                 *)
(* Each component has its own specification over its own variables; the    *)
(* variables of the other components stay at their initial values.         *)
(***************************************************************************)
EXTENDS Integers, Sequences, FiniteSets, TLC

\* ------------------------------------------------------------------------
\* Bounds of the model
MaxKey == 3        \* keys of a shared-representation table are 1..MaxKey
MaxRefs == 3       \* total number of key references in one table

\* ------------------------------------------------------------------------
\* State

\* DecodeConstr (gamepad/coq/constr_decode.py)
VARIABLES
    constr_share,   \* self.constr_share : key -> entry (already lexed)
    rawasts,        \* self.rawasts      : key -> raw ast
    edges,          \* self.edges        : list of (key, referenced key)
    decoded,        \* self.decoded      : key -> object
    heap,           \* the Exp objects constructed so far, by object id
    made,           \* keys for which an Exp object was constructed, in order
    todo,           \* keys of the topological order not yet visited
    d_ret,          \* the last decode_exp_by_key: <<key, object returned>>
    d_pc            \* "init" | "decoding" | "done" | "cycles" | "keyerror"

decVars == <<constr_share, rawasts, edges, decoded, heap, made, todo, d_ret, d_pc>>

\* MyEnv and FastEnv (gamepad/lib/myenv.py)
VARIABLES
    e_cls,      \* the class exercised: "none" | "MyEnv" | "FastEnv"
    e_dicts,    \* heap of dicts: ident -> value
    e_lists,    \* heap of lists of values
    e_envs,     \* the environment objects returned so far, in order of creation
    e_hist,     \* history: how each environment was made [op, self, ident, value]
    e_snap      \* history: each environment's lookup results when it was returned

envVars == <<e_cls, e_dicts, e_lists, e_envs, e_hist, e_snap>>

\* TacTree (ml4tputils/recon/tactr.py)
VARIABLES
    t_pc,       \* "init" | "built" | "AssertionError" | "KeyError"
    t_nodes,    \* self.graph.nodes(), in iteration order
    t_edges,    \* self.edges : list of TacEdge; the graph has one edge per TacEdge
    t_info,     \* the goal ids that are keys of self.tacst_info
    root,       \* self.root (0 is None)
    tactics,    \* self.tactics : tid -> list of edges (as indices into t_edges)
    flatview,   \* self.flatview
    term_goals, \* self.term_goals
    err_goals,  \* self.err_goals
    v_hist,     \* the last result of view_tactic_hist: [f_compress, view]
    notok,      \* self.notok (goal ids; the code keeps str(gid))
    t_views,    \* the view and statistics operations called so far, by name
    st_rets,    \* the records stats() / log_stats() returned, each as it was on return
    h_file      \* the lines log_stats wrote to h_file

tacVars == <<t_pc, t_nodes, t_edges, t_info, root, tactics, flatview, term_goals,
            err_goals, v_hist, notok, t_views, st_rets, h_file>>

\* GenAlgExpr (ml4tputils/ml/rewrite/solver.py)
VARIABLES
    lemma_cnt,  \* GenAlgExpr.lemma_cnt
    g_ret       \* the last gen_expr_b / gen_expr_e / gen_expr_m call:
                \* [kind, length, expr, exc]

genVars == <<lemma_cnt, g_ret>>

\* RandAlgPolicy (ml4tputils/ml/rewrite/solver.py)
VARIABLES
    p_goal,     \* the goal_c of the last next_proof_step call (<<>> before any)
    p_ret,      \* what _select returned: [dir, c]; dir "None" when it fell through
    p_step,     \* what next_proof_step returned (text), or <<"TypeError">>
    elim_e,     \* self.elim_e
    elim_m,     \* self.elim_m
    r_in,       \* the arguments of the last direct _reduce2 call: [red, c] (<<>> before any)
    r_out       \* the term it returned

polVars == <<p_goal, p_ret, p_step, elim_e, elim_m, r_in, r_out>>

\* a generated lemma body reduced by the policy step after step
VARIABLES
    run_expr,   \* the expression gen_expr_b returned, as a term (<<>> before)
    run_c,      \* the term the policy is asked about next
    run_steps,  \* the steps so far: [dir, from, to]
    run_exc     \* "none", or the exception that ended the run

runVars == <<run_expr, run_c, run_steps, run_exc>>

\* PyCoqAlgProver and the driver (ml4tputils/ml/rewrite/solver.py)
VARIABLES
    drv_i,          \* iterations of the driver's loop begun so far
    written,        \* proof scripts written to theorems.v so far
    tops,           \* every CoqTop session made so far: "entered" | "exited"
    top_mode,       \* the current session: "none" | "fresh" | "top" | "stated" |
                    \* "proof" | "closed" | "qed"
    top_goal,       \* the current session's goal, as [lhs, rhs] (<<>> when none)
    s_pc,           \* where the driver / solver is
    lemma,          \* self.lemma (text)
    concl,          \* the conclusion load_tcoq_result last read from the dump
    proof,          \* self.proof : list of lines
    good_choices,   \* self.good_choices
    num_steps,      \* self.num_steps
    s_log,          \* history: what was sent to the current session, with the
                    \* response to each: [cmd, res], res "pending" until it returns
    script          \* what extract_proof returned for the current solver

solVars == <<drv_i, written, tops, top_mode, top_goal, s_pc, lemma, concl, proof,
            good_choices, num_steps, s_log, script>>

\* DiffAst (ml4tputils/ml/rewrite/dataset_prep.py)
VARIABLES
    diff_in,    \* the arguments of the last diff_ast call: <<c1, c2>> (<<>> before any)
    diff_ret    \* its result: [pos, exc]

diffVars == <<diff_in, diff_ret>>

\* to_goalattn_dataset (ml4tputils/ml/rewrite/dataset_prep.py)
VARIABLES
    prep_in,    \* poseval_dataset: [train, test, val], lists of records (<<>> before the call)
    prep_pt,    \* the labels on the records' proof states after the call, per list:
                \* [tac_bin, subtr_bin], -1 for an attribute never set
    prep_out,   \* the lists returned, as positions in the input lists, and the
                \* positions table of each clean2 call
    prep_exc    \* "none" or the exception that ended the call

prepVars == <<prep_in, prep_pt, prep_out, prep_exc>>

\* AstOp.eq (ml4tputils/ml/rewrite/solver.py)
VARIABLES
    eq_in,      \* the arguments of the last AstOp().eq call (<<>> before any)
    eq_ret      \* its result: [val, exc]

eqVars == <<eq_in, eq_ret>>

rwVars == <<genVars, polVars, solVars, diffVars, prepVars, eqVars, runVars>>

\* The folder of gamepad/ml/fold_model.py: TacStModel's configuration, the
\* Folder's cap table and the operations it has enqueued, TacStFolder's cache.
VARIABLES
    f_cfg,           \* the constructor arguments, <<>> before construction
    max_batch_ops,   \* Folder.max_batch_ops: op name -> cap
    f_gen,           \* how many Fold objects Folder.reset has created
    f_ops,           \* the operations add() has enqueued on the current Fold
    folded,          \* TacStFolder.folded: tag -> embedding
    f_folds,         \* per fold_tacst so far: its tactic state and the operations it enqueued
    f_log,           \* what the last fold_tacst did, in order
    f_exc,           \* the exception the last fold_tacst raised, or "none"
    f_tacst,         \* the tactic state of the last fold_tacst
    f_ret,           \* what the last fold_tacst returned
    f_calls          \* the operations called on the folder, in order

foldVars == <<f_cfg, max_batch_ops, f_gen, f_ops, folded, f_folds, f_log,
              f_exc, f_tacst, f_ret, f_calls>>

vars == <<decVars, envVars, tacVars, rwVars, foldVars>>

\* ------------------------------------------------------------------------
\* Generic helpers
Range(s) == {s[i] : i \in DOMAIN s}

EmptyMap == <<>>

\* dict[k] = v on a TLA+ function whose domain grows
MapPut(m, k, v) == [x \in (DOMAIN m) \cup {k} |-> IF x = k THEN v ELSE m[x]]

\* ========================================================================
\* DecodeConstr  (gamepad/coq/constr_decode.py)
\* ========================================================================
Keys == 1..MaxKey

\* An entry of the table after lexing: its kind and the keys it refers to.
\*   "V" : V %s          no reference         (as R, M, S, C, I, CO)
\*   "L" : L %s %d %d    ty_idx, c_idx        (as CA, P, LI, PJ: fixed arity)
\*   "A" : A %d [%s]     c_idx and cs_idxs    (as E, CS, F, CF: a key list)
EntriesWith(r) ==
    IF r = 0 THEN {[kind |-> "V", refs |-> <<>>]}
    ELSE {[kind |-> "A", refs |-> s] : s \in [1..r -> Keys]}
         \cup (IF r = 2 THEN {[kind |-> "L", refs |-> s] : s \in [1..2 -> Keys]}
               ELSE {})

RECURSIVE SumRefs(_)
SumRefs(t) == IF t = <<>> THEN 0 ELSE Len(t[1].refs) + SumRefs(Tail(t))

\* Tables with keys 1..n and at most MaxRefs references in all.
RECURSIVE TablesOf(_)
TablesOf(n) ==
    IF n = 0 THEN {<<>>}
    ELSE UNION {{Append(t, e) : e \in UNION {EntriesWith(r) : r \in 0..(MaxRefs - SumRefs(t))}}
                : t \in TablesOf(n - 1)}

Tables == UNION {TablesOf(n) : n \in 1..MaxKey}

\* _add_edges
add_edges(es, idx, idxs) == es \o [i \in 1..Len(idxs) |-> <<idx, idxs[i]>>]

\* _parse_rawast, folded over constr_share.items(): rawasts and edges
RECURSIVE parse_rawasts(_, _, _, _)
parse_rawasts(share, key, raws, es) ==
    IF key > Len(share) THEN [rawasts |-> raws, edges |-> es]
    ELSE LET entry == share[key]
         IN parse_rawasts(share, key + 1,
                          MapPut(raws, key, entry),
                          IF entry.kind = "V" THEN es
                          ELSE add_edges(es, key, entry.refs))

\* nodes of g: the keys of the table and every endpoint of an edge
GraphNodes(share, es) == (DOMAIN share) \cup {e[1] : e \in Range(es)} \cup {e[2] : e \in Range(es)}

\* the keys reachable from k by one or more edges
RECURSIVE ReachFrom(_, _)
ReachFrom(E, S) ==
    LET S2 == S \cup {e[2] : e \in {x \in E : x[1] \in S}}
    IN IF S2 = S THEN S ELSE ReachFrom(E, S2)

Succs(E, k) == {e[2] : e \in {x \in E : x[1] = k}}

\* nx.simple_cycles(g) is non-empty: some node reaches itself (self-loops count)
SomeNodeReachesItself(E) == \E k \in {e[1] : e \in E} : k \in ReachFrom(E, Succs(E, k))

\* a cycle check that overlooks self-loops
HasCycle_noSelfLoops(E) == SomeNodeReachesItself({e \in E : e[1] # e[2]})
\* len(list(nx.simple_cycles(g))) > 0
HasCycle(E) == SomeNodeReachesItself(E)

\* ------------------------------------------------------------------------
\* Second pass.  The part of the decoder's state the recursion threads is a
\* record [decoded, heap, made, err]; err is a raised KeyError.
\* An object is [kind, kids, tag]; kids are object ids (references), from 1;
\* tag 0 is an object not yet tagged, and object id 0 stands for no object.

\* the constructor call of an Exp class: a fresh object, not yet tagged
NewExp(st, key, kind, kids) ==
    [st EXCEPT !.heap = Append(@, [kind |-> kind, kids |-> kids, tag |-> 0]),
               !.made = Append(@, key)]

\* _mkcon(key, c)
mkcon(st, key, c) ==
    IF key \in DOMAIN st.decoded
    THEN [st |-> st, ret |-> st.decoded[key]]
    ELSE [st |-> [st EXCEPT !.heap[c].tag = key, !.decoded = MapPut(@, key, c)],
          ret |-> c]

\* the "if key in self.decoded" test that opens _decode_ast
IsDecoded_never(st, key) == FALSE
IsDecoded(st, key) == key \in DOMAIN st.decoded

RECURSIVE decode_ast(_, _, _), decode_asts(_, _, _)
\* _decode_ast(key)
decode_ast(raws, st, key) ==
    IF st.err THEN [st |-> st, ret |-> 0]
    ELSE IF IsDecoded(st, key) THEN [st |-> st, ret |-> st.decoded[key]]
    ELSE IF key \notin DOMAIN raws
    THEN [st |-> [st EXCEPT !.err = TRUE], ret |-> 0]
    ELSE LET toks == raws[key]
             kind == toks.kind
             rest == toks.refs
         IN CASE kind = "V" ->
                   LET s1 == NewExp(st, key, "V", <<>>)
                   IN mkcon(s1, key, Len(s1.heap))
              [] kind = "L" ->
                   LET ty == decode_ast(raws, st, rest[1])
                       c == decode_ast(raws, ty.st, rest[2])
                       s1 == NewExp(c.st, key, "L", <<ty.ret, c.ret>>)
                   IN IF c.st.err THEN [st |-> c.st, ret |-> 0]
                      ELSE mkcon(s1, key, Len(s1.heap))
              [] kind = "A" ->
                   LET c == decode_ast(raws, st, rest[1])
                       cs == decode_asts(raws, c.st, Tail(rest))
                       s1 == NewExp(cs.st, key, "A", <<c.ret>> \o cs.ret)
                   IN IF cs.st.err THEN [st |-> cs.st, ret |-> 0]
                      ELSE mkcon(s1, key, Len(s1.heap))

\* _decode_asts(keys)
decode_asts(raws, st, keys) ==
    IF keys = <<>> THEN [st |-> st, ret |-> <<>>]
    ELSE LET hd == decode_ast(raws, st, Head(keys))
             tl == decode_asts(raws, hd.st, Tail(keys))
         IN [st |-> tl.st, ret |-> <<hd.ret>> \o tl.ret]

\* ------------------------------------------------------------------------
\* Actions of the decoder

DecInit ==
    /\ constr_share = <<>>
    /\ rawasts = <<>>
    /\ edges = <<>>
    /\ decoded = <<>>
    /\ heap = <<>>
    /\ made = <<>>
    /\ todo = {}
    /\ d_ret = <<0, 0>>
    /\ d_pc = "init"

\* DecodeConstr(constr_share), up to the cycle check of _decode_constrs
Construct(t) ==
    /\ d_pc = "init"
    /\ LET p == parse_rawasts(t, 1, <<>>, <<>>)
       IN /\ constr_share' = t
          /\ rawasts' = p.rawasts
          /\ edges' = p.edges
          /\ IF HasCycle(Range(p.edges))
             THEN d_pc' = "cycles" /\ todo' = {}
             ELSE d_pc' = "decoding" /\ todo' = GraphNodes(t, p.edges)
    /\ UNCHANGED <<decoded, heap, made, d_ret>>
    /\ UNCHANGED <<envVars, tacVars, rwVars, foldVars>>

\* One iteration of "for key in keys" over a topological order of g (parents
\* before the keys they refer to); the last one clears the first-pass state.
DecodeKey(key) ==
    /\ d_pc = "decoding"
    /\ key \in todo
    /\ \A e \in Range(edges) : e[2] = key => e[1] \notin todo
    /\ LET st0 == [decoded |-> decoded, heap |-> heap, made |-> made, err |-> FALSE]
           c == decode_ast(rawasts, st0, key)
           r == IF c.st.err THEN c ELSE mkcon(c.st, key, c.ret)
       IN /\ decoded' = r.st.decoded
          /\ heap' = r.st.heap
          /\ made' = r.st.made
          /\ IF r.st.err
             THEN d_pc' = "keyerror" /\ UNCHANGED <<todo, edges, rawasts>>
             ELSE /\ todo' = todo \ {key}
                  /\ IF todo' = {}
                     THEN d_pc' = "done" /\ edges' = <<>> /\ rawasts' = <<>>
                     ELSE d_pc' = "decoding" /\ UNCHANGED <<edges, rawasts>>
    /\ UNCHANGED <<constr_share, d_ret>>
    /\ UNCHANGED <<envVars, tacVars, rwVars, foldVars>>

\* decode_exp_by_key(key) on a decoder whose construction returned
decode_exp_by_key(key) ==
    /\ d_pc = "done"
    /\ key \in DOMAIN decoded
    /\ d_ret' = <<key, decoded[key]>>
    /\ UNCHANGED <<constr_share, rawasts, edges, decoded, heap, made, todo, d_pc>>
    /\ UNCHANGED <<envVars, tacVars, rwVars, foldVars>>

DecNext ==
    \/ d_pc = "init" /\ \E t \in Tables : Construct(t)
    \/ \E key \in Keys : DecodeKey(key)
    \/ \E key \in Keys : decode_exp_by_key(key)

\* ------------------------------------------------------------------------
\* Claims about the decoder

\* how often x occurs in the sequence s
Occurrences(s, x) == Cardinality({i \in DOMAIN s : s[i] = x})

\* C1: for a table the decoder accepts, one object is constructed per key, no
\* two objects carry the same tag, every reference a parent holds to key k
\* (each occurrence of k among its references) is the object decoded[k], and
\* decode_exp_by_key(k) returns that same object.
C1_SharedNodes ==
    /\ d_pc \in {"decoding", "done"} =>
          /\ \A k \in DOMAIN decoded :
                /\ Occurrences(made, k) = 1
                /\ heap[decoded[k]].tag = k
                /\ heap[decoded[k]].kind = constr_share[k].kind
                /\ Len(heap[decoded[k]].kids) = Len(constr_share[k].refs)
                /\ \A i \in DOMAIN constr_share[k].refs :
                      /\ constr_share[k].refs[i] \in DOMAIN decoded
                      /\ heap[decoded[k]].kids[i] = decoded[constr_share[k].refs[i]]
          /\ \A o1, o2 \in DOMAIN heap : heap[o1].tag = heap[o2].tag => o1 = o2
          /\ Len(made) = Len(heap)
    /\ d_pc = "done" =>
          /\ DOMAIN decoded = DOMAIN constr_share
          /\ Len(heap) = Len(constr_share)
          /\ d_ret[1] # 0 => d_ret[2] = decoded[d_ret[1]]

\* a key with two parents, referred to twice by one of them, and looked up
C1_Witness ==
    /\ d_pc = "done"
    /\ \E k \in DOMAIN constr_share :
          /\ d_ret[1] = k
          /\ Cardinality({p \in DOMAIN constr_share : k \in Range(constr_share[p].refs)}) >= 2
          /\ \E p \in DOMAIN constr_share : Occurrences(constr_share[p].refs, k) >= 2

\* the dependency graph of the input table, read off the table itself
TableDeps ==
    UNION {{<<k, r>> : r \in Range(constr_share[k].refs)} : k \in DOMAIN constr_share}
TableIsCyclic == \E k \in DOMAIN constr_share : k \in ReachFrom(TableDeps, Succs(TableDeps, k))

\* C2: when the dependency graph of the table has a cycle, construction ends
\* in the cycles-detected error, and no object was constructed and no key
\* decoded.
C2_CycleRejected ==
    (d_pc # "init" /\ TableIsCyclic) =>
        (d_pc = "cycles" /\ decoded = <<>> /\ heap = <<>> /\ made = <<>>)

\* the table {1: "A 2 []", 2: "A 1 []"} was rejected
C2_Witness ==
    /\ d_pc = "cycles"
    /\ Len(constr_share) = 2
    /\ constr_share[1] = [kind |-> "A", refs |-> <<2>>]
    /\ constr_share[2] = [kind |-> "A", refs |-> <<1>>]

\* ========================================================================
\* MyEnv and FastEnv  (gamepad/lib/myenv.py)
\* ========================================================================
\* Dicts and lists are objects on a heap, and an environment holds references
\* to them, so that an update in place is seen through every alias.
\* A lookup returns <<"ok", value>>, or <<exception, 0>> when it raises.
MaxEnvs == 4       \* environment objects in one run
MaxIdent == 2      \* identifiers are 1..MaxIdent

Idents == 1..MaxIdent
Positions == (0 - MaxEnvs - 1)..(MaxEnvs + 1)

\* xs[j] of a Python list
py_getitem(xs, j) ==
    IF j >= 0
    THEN (IF j < Len(xs) THEN <<"ok", xs[j + 1]>> ELSE <<"IndexError", 0>>)
    ELSE (IF 0 - j <= Len(xs) THEN <<"ok", xs[Len(xs) + j + 1]>> ELSE <<"IndexError", 0>>)

\* ---- MyEnv: an object is [env |-> dict id, order |-> list id]

\* extend that binds in self.env itself instead of in a copy
MyEnv_extend_inplace(D, L, self, ident, value) ==
    [dicts |-> [D EXCEPT ![self.env] = MapPut(@, ident, value)],
     lists |-> Append(L, Append(L[self.order], value)),
     ret |-> [env |-> self.env, order |-> Len(L) + 1]]
\* MyEnv.extend(ident, value)
MyEnv_extend(D, L, self, ident, value) ==
    LET env_p == MapPut(D[self.env], ident, value)
    IN [dicts |-> Append(D, env_p),
        lists |-> Append(L, Append(L[self.order], value)),
        ret |-> [env |-> Len(D) + 1, order |-> Len(L) + 1]]

\* MyEnv.lookup_id(ident)
MyEnv_lookup_id(D, self, ident) ==
    IF ident \in DOMAIN D[self.env] THEN <<"ok", D[self.env][ident]>>
    ELSE <<"NotFound", 0>>

\* MyEnv.lookup_rel(idx)
MyEnv_lookup_rel(L, self, idx) ==
    IF idx < Len(L[self.order]) THEN py_getitem(L[self.order], 0 - 1 - idx)
    ELSE <<"NotFound", 0>>

\* ---- FastEnv: an object is [ctx_env, local_env |-> dict ids,
\*                             ctx_order, local_order |-> list ids]

\* FastEnv.ctx_extend(ident, value)
FastEnv_ctx_extend(D, L, self, ident, value) ==
    [dicts |-> [D EXCEPT ![self.ctx_env] = MapPut(@, ident, value)],
     lists |-> [L EXCEPT ![self.ctx_order] = Append(@, value)],
     ret |-> [ctx_env |-> self.ctx_env, local_env |-> self.local_env,
              ctx_order |-> self.ctx_order, local_order |-> self.local_order]]

\* local_extend that binds in self.local_env itself instead of in a copy
FastEnv_local_extend_inplace(D, L, self, ident, value) ==
    [dicts |-> [D EXCEPT ![self.local_env] = MapPut(@, ident, value)],
     lists |-> Append(L, Append(L[self.local_order], value)),
     ret |-> [ctx_env |-> self.ctx_env, local_env |-> self.local_env,
              ctx_order |-> self.ctx_order, local_order |-> Len(L) + 1]]
\* FastEnv.local_extend(ident, value)
FastEnv_local_extend(D, L, self, ident, value) ==
    LET local_env_p == MapPut(D[self.local_env], ident, value)
    IN [dicts |-> Append(D, local_env_p),
        lists |-> Append(L, Append(L[self.local_order], value)),
        ret |-> [ctx_env |-> self.ctx_env, local_env |-> Len(D) + 1,
                 ctx_order |-> self.ctx_order, local_order |-> Len(L) + 1]]

\* lookup_id that consults the context tier first
FastEnv_lookup_id_ctxFirst(D, self, ident) ==
    IF ident \in DOMAIN D[self.ctx_env] THEN <<"ok", D[self.ctx_env][ident]>>
    ELSE IF ident \in DOMAIN D[self.local_env] THEN <<"ok", D[self.local_env][ident]>>
    ELSE <<"NotFound", 0>>
\* FastEnv.lookup_id(ident)
FastEnv_lookup_id(D, self, ident) ==
    IF ident \in DOMAIN D[self.local_env] THEN <<"ok", D[self.local_env][ident]>>
    ELSE IF ident \in DOMAIN D[self.ctx_env] THEN <<"ok", D[self.ctx_env][ident]>>
    ELSE <<"NotFound", 0>>

\* FastEnv.lookup_rel(idx)
FastEnv_lookup_rel(L, self, idx) ==
    IF idx < Len(L[self.local_order]) THEN py_getitem(L[self.local_order], 0 - 1 - idx)
    ELSE <<"NotFound", 0>>

\* every lookup on one environment: by id and by position
Lookups(cls, D, L, self) ==
    [ids |-> [x \in Idents |-> IF cls = "MyEnv" THEN MyEnv_lookup_id(D, self, x)
                                ELSE FastEnv_lookup_id(D, self, x)],
     rels |-> [i \in Positions |-> IF cls = "MyEnv" THEN MyEnv_lookup_rel(L, self, i)
                                   ELSE FastEnv_lookup_rel(L, self, i)]]

\* ------------------------------------------------------------------------
\* Actions of the environments.  The value bound by an extension is opaque to
\* the code (an embedding); each extension binds a value not bound before.

EnvInit ==
    /\ e_cls = "none"
    /\ e_dicts = <<>>
    /\ e_lists = <<>>
    /\ e_envs = <<>>
    /\ e_hist = <<>>
    /\ e_snap = <<>>

Returned(cls, r, op, self, ident, value) ==
    /\ e_cls' = cls
    /\ e_dicts' = r.dicts
    /\ e_lists' = r.lists
    /\ e_envs' = Append(e_envs, r.ret)
    /\ e_hist' = Append(e_hist, [op |-> op, self |-> self, ident |-> ident, value |-> value])
    /\ e_snap' = Append(e_snap, Lookups(cls, r.dicts, r.lists, r.ret))
    /\ UNCHANGED <<decVars, tacVars, rwVars, foldVars>>

\* MyEnv({}, [])
NewMyEnv ==
    /\ e_cls = "none"
    /\ Returned("MyEnv", [dicts |-> << <<>> >>, lists |-> << <<>> >>,
                          ret |-> [env |-> 1, order |-> 1]], "new", 0, 0, 0)

\* FastEnv({}, {}, [], [])
NewFastEnv ==
    /\ e_cls = "none"
    /\ Returned("FastEnv", [dicts |-> << <<>>, <<>> >>, lists |-> << <<>>, <<>> >>,
                            ret |-> [ctx_env |-> 1, local_env |-> 2,
                                     ctx_order |-> 1, local_order |-> 2]], "new", 0, 0, 0)

\* e_envs[self].extend(ident, value)
Extend(self, ident) ==
    /\ e_cls = "MyEnv"
    /\ Len(e_envs) < MaxEnvs
    /\ LET value == Len(e_envs)
       IN Returned("MyEnv", MyEnv_extend(e_dicts, e_lists, e_envs[self], ident, value),
                   "extend", self, ident, value)

\* e_envs[self].ctx_extend(ident, value)
CtxExtend(self, ident) ==
    /\ e_cls = "FastEnv"
    /\ Len(e_envs) < MaxEnvs
    /\ LET value == Len(e_envs)
       IN Returned("FastEnv", FastEnv_ctx_extend(e_dicts, e_lists, e_envs[self], ident, value),
                   "ctx_extend", self, ident, value)

\* e_envs[self].local_extend(ident, value)
LocalExtend(self, ident) ==
    /\ e_cls = "FastEnv"
    /\ Len(e_envs) < MaxEnvs
    /\ LET value == Len(e_envs)
       IN Returned("FastEnv", FastEnv_local_extend(e_dicts, e_lists, e_envs[self], ident, value),
                   "local_extend", self, ident, value)

EnvNext ==
    \/ NewMyEnv
    \/ NewFastEnv
    \/ \E self \in DOMAIN e_envs, ident \in Idents : Extend(self, ident)
    \/ \E self \in DOMAIN e_envs, ident \in Idents : CtxExtend(self, ident)
    \/ \E self \in DOMAIN e_envs, ident \in Idents : LocalExtend(self, ident)

\* ------------------------------------------------------------------------
\* Claims about the environments

\* the current result of every lookup on environment e
Now(e) == Lookups(e_cls, e_dicts, e_lists, e_envs[e])

\* The bindings environment e stands for, read off the history of extensions:
\* the <<ident, value>> pairs of the extensions of kind op on the way from
\* the first environment to e, oldest first.
RECURSIVE BindingsOf(_, _)
BindingsOf(e, ops) ==
    IF e_hist[e].op = "new" THEN <<>>
    ELSE IF e_hist[e].op \in ops
    THEN Append(BindingsOf(e_hist[e].self, ops), <<e_hist[e].ident, e_hist[e].value>>)
    ELSE BindingsOf(e_hist[e].self, ops)

\* the value of the last binding of x in a list of bindings; 0 if there is none
RECURSIVE LastBound(_, _)
LastBound(bs, x) ==
    IF bs = <<>> THEN 0
    ELSE IF bs[Len(bs)][1] = x THEN bs[Len(bs)][2]
    ELSE LastBound(SubSeq(bs, 1, Len(bs) - 1), x)

\* C3: an environment returned by MyEnv.extend(x, v) resolves x to v and
\* position 0 to v, and every lookup on the environment extend was called on
\* still returns what it returned when that environment was itself returned.
C3_ExtendShadows ==
    e_cls = "MyEnv" =>
        \A e \in DOMAIN e_envs :
            e_hist[e].op = "extend" =>
                /\ Now(e).ids[e_hist[e].ident] = <<"ok", e_hist[e].value>>
                /\ Now(e).rels[0] = <<"ok", e_hist[e].value>>
                /\ Now(e_hist[e].self) = e_snap[e_hist[e].self]

\* x bound in an environment was bound again by an extension of it
C3_Witness ==
    /\ e_cls = "MyEnv"
    /\ \E e \in DOMAIN e_envs :
          /\ e_hist[e].op = "extend"
          /\ Now(e_hist[e].self).ids[e_hist[e].ident][1] = "ok"
          /\ Now(e_hist[e].self).ids[e_hist[e].ident] # Now(e).ids[e_hist[e].ident]

\* the values on the positional stack of e, oldest first
PositionalOf(e) ==
    LET bs == BindingsOf(e, {"extend", "local_extend"})
    IN [k \in 1..Len(bs) |-> bs[k][2]]

\* C4: in both variants lookup_rel(i) returns the value bound i extensions
\* before the most recent one for 0 <= i < n, and raises NotFound for every
\* other i, the negative ones included.
C4_PositionalLookup ==
    \A e \in DOMAIN e_envs : \A i \in Positions :
        LET ps == PositionalOf(e)
        IN Now(e).rels[i] = IF 0 <= i /\ i < Len(ps) THEN <<"ok", ps[Len(ps) - i]>>
                            ELSE <<"NotFound", 0>>

\* C5: FastEnv.lookup_id(x) is the latest local binding of x on the way to the
\* environment if there is one, else the binding of x in the context tier
\* (the latest ctx_extend of x), else NotFound; lookup_rel reads the local
\* positional stack alone, and a context extension leaves it as it was.
C5_TwoTierLookup ==
    e_cls = "FastEnv" =>
        \A e \in DOMAIN e_envs :
            LET local == BindingsOf(e, {"local_extend"})
                ctx == [k \in {n \in DOMAIN e_hist : e_hist[n].op = "ctx_extend"}
                            |-> <<e_hist[k].ident, e_hist[k].value>>]
                ctxs == {k \in DOMAIN ctx : TRUE}
                lastCtx(x) == LET ks == {k \in ctxs : ctx[k][1] = x}
                              IN IF ks = {} THEN 0
                                 ELSE ctx[CHOOSE k \in ks : \A k2 \in ks : k2 <= k][2]
                ps == PositionalOf(e)
            IN /\ \A x \in Idents :
                     Now(e).ids[x] =
                        IF LastBound(local, x) # 0 THEN <<"ok", LastBound(local, x)>>
                        ELSE IF lastCtx(x) # 0 THEN <<"ok", lastCtx(x)>>
                        ELSE <<"NotFound", 0>>
               /\ \A i \in Positions :
                     /\ 0 <= i /\ i < Len(ps) => Now(e).rels[i] = <<"ok", ps[Len(ps) - i]>>
                     /\ i >= Len(ps) => Now(e).rels[i] = <<"NotFound", 0>>
                     /\ Now(e).rels[i] = e_snap[e].rels[i]
                     /\ e_hist[e].op = "ctx_extend" =>
                            Now(e).rels[i] = Now(e_hist[e].self).rels[i]

\* two context extensions with distinct identifiers, then a local extension
\* that binds one of them again
C5_Witness ==
    /\ e_cls = "FastEnv"
    /\ \E e \in DOMAIN e_envs : \E x, y \in Idents :
          /\ x # y
          /\ e_hist[e].op = "local_extend" /\ e_hist[e].ident = x
          /\ {x, y} \subseteq DOMAIN e_dicts[e_envs[e].ctx_env]
          /\ Now(e).ids[x] = <<"ok", e_hist[e].value>>
          /\ Now(e).ids[y][1] = "ok"

\* C6 as claimed: no extension of either variant changes the result of any
\* lookup on an environment returned earlier.
C6_NoLookupChanges ==
    \A e \in DOMAIN e_envs : Now(e) = e_snap[e]

\* C6 amended: extend and local_extend change no lookup on any environment
\* returned earlier; ctx_extend(x, v) changes no positional lookup, and of the
\* lookups by id only that of x, on environments that have no local binding
\* of x.  Every extension returns one more environment object.
C6_OnlyContextChanges ==
    /\ Len(e_envs) = Len(e_hist)
    /\ \A e \in DOMAIN e_envs :
          /\ Now(e).rels = e_snap[e].rels
          /\ e_cls = "MyEnv" => Now(e).ids = e_snap[e].ids
          /\ \A x \in Idents :
                Now(e).ids[x] # e_snap[e].ids[x] =>
                    /\ \E e2 \in DOMAIN e_envs :
                          e2 > e /\ e_hist[e2].op = "ctx_extend" /\ e_hist[e2].ident = x
                    /\ LastBound(BindingsOf(e, {"local_extend"}), x) = 0

\* a local extension and a context extension both happened, and the context
\* extension changed a lookup on an earlier environment
C6_Witness ==
    /\ e_cls = "FastEnv"
    /\ \E e \in DOMAIN e_envs : e_hist[e].op = "local_extend"
    /\ \E e \in DOMAIN e_envs : Now(e).ids # e_snap[e].ids

\* ========================================================================
\* TacTree  (ml4tputils/recon/tactr.py)
\* ========================================================================
NumGoals == 3      \* goal ids (graph nodes) are 1..NumGoals
MaxEdges == 3      \* length of the edge list
FlatEdges == 2     \* length of the edge list when goal records and kinds vary

Goals == 1..NumGoals

\* the vocabulary without its last name
TACTICS_oneShort == <<
    "<coretactics::intro@0>",
    "<coretactics::assumption@0>",
    "<coretactics::clear@0>",
    "<coretactics::clearbody@0>",
    "<coretactics::constructor@0>",
    "<coretactics::constructor@1>",
    "<coretactics::exact@0>",
    "<coretactics::exists@1>",
    "<coretactics::left@0>",
    "<coretactics::right@0>",
    "<coretactics::right_with@0>",
    "<coretactics::split@0>",
    "<coretactics::symmetry@0>",
    "<coretactics::transitivity@0>",
    "<extratactics::contradiction@0>",
    "<extratactics::discriminate@0>",
    "<g_auto::auto@0>",
    "<g_auto::eauto@0>",
    "<g_auto::trivial@0>",
    "<ssreflect_plugin::ssrapply@0>",
    "<ssreflect_plugin::ssrapply@1>",
    "<ssreflect_plugin::ssrcase@0>",
    "<ssreflect_plugin::ssrcase@1>",
    "<ssreflect_plugin::ssrclear@0>",
    "<ssreflect_plugin::ssrcongr@0>",
    "<ssreflect_plugin::ssrelim@0>",
    "<ssreflect_plugin::ssrexact@0>",
    "<ssreflect_plugin::ssrexact@1>",
    "<ssreflect_plugin::ssrhave@0>",
    "<ssreflect_plugin::ssrmove@0>",
    "<ssreflect_plugin::ssrmove@1>",
    "<ssreflect_plugin::ssrmove@2>",
    "<ssreflect_plugin::ssrpose@0>",
    "<ssreflect_plugin::ssrpose@2>",
    "<ssreflect_plugin::ssrrewrite@0>",
    "<ssreflect_plugin::ssrset@0>",
    "<ssreflect_plugin::ssrsuff@0>",
    "<ssreflect_plugin::ssrsuffices@0>",
    "<ssreflect_plugin::ssrtclby@0>",
    "<ssreflect_plugin::ssrtcldo@0>",
    "<ssreflect_plugin::ssrtclintros@0>",
    "<ssreflect_plugin::ssrtclseq@0>",
    "<ssreflect_plugin::ssrwithoutloss@0>",
    "<ssreflect_plugin::ssrwithoutlossss@0>",
    "<ssreflect_plugin::ssrwlog@0>",
    "<ssreflect_plugin::ssrwlogss@0>" >>
\* TACTICS
TACTICS == <<
    "<coretactics::intro@0>",
    "<coretactics::assumption@0>",
    "<coretactics::clear@0>",
    "<coretactics::clearbody@0>",
    "<coretactics::constructor@0>",
    "<coretactics::constructor@1>",
    "<coretactics::exact@0>",
    "<coretactics::exists@1>",
    "<coretactics::left@0>",
    "<coretactics::right@0>",
    "<coretactics::right_with@0>",
    "<coretactics::split@0>",
    "<coretactics::symmetry@0>",
    "<coretactics::transitivity@0>",
    "<extratactics::contradiction@0>",
    "<extratactics::discriminate@0>",
    "<g_auto::auto@0>",
    "<g_auto::eauto@0>",
    "<g_auto::trivial@0>",
    "<ssreflect_plugin::ssrapply@0>",
    "<ssreflect_plugin::ssrapply@1>",
    "<ssreflect_plugin::ssrcase@0>",
    "<ssreflect_plugin::ssrcase@1>",
    "<ssreflect_plugin::ssrclear@0>",
    "<ssreflect_plugin::ssrcongr@0>",
    "<ssreflect_plugin::ssrelim@0>",
    "<ssreflect_plugin::ssrexact@0>",
    "<ssreflect_plugin::ssrexact@1>",
    "<ssreflect_plugin::ssrhave@0>",
    "<ssreflect_plugin::ssrmove@0>",
    "<ssreflect_plugin::ssrmove@1>",
    "<ssreflect_plugin::ssrmove@2>",
    "<ssreflect_plugin::ssrpose@0>",
    "<ssreflect_plugin::ssrpose@2>",
    "<ssreflect_plugin::ssrrewrite@0>",
    "<ssreflect_plugin::ssrset@0>",
    "<ssreflect_plugin::ssrsuff@0>",
    "<ssreflect_plugin::ssrsuffices@0>",
    "<ssreflect_plugin::ssrtclby@0>",
    "<ssreflect_plugin::ssrtcldo@0>",
    "<ssreflect_plugin::ssrtclintros@0>",
    "<ssreflect_plugin::ssrtclseq@0>",
    "<ssreflect_plugin::ssrwithoutloss@0>",
    "<ssreflect_plugin::ssrwithoutlossss@0>",
    "<ssreflect_plugin::ssrwlog@0>",
    "<ssreflect_plugin::ssrwlogss@0>",
    "<ssreflect_plugin::ssrwlogs@0>" >>

\* ---- MyHist over TACTICS (lib/myhist.py, not among the sources)
\* TACTIC_HIST.empty()
MyHist_empty == [n \in Range(TACTICS) |-> 0]
\* TACTIC_HIST.inc_insert(hist, key, value): a key outside the vocabulary is not counted
MyHist_inc_insert(hist, key, value) ==
    IF key \in DOMAIN hist THEN [hist EXCEPT ![key] = @ + value] ELSE hist
\* TACTIC_HIST.view(hist): (name, count) pairs in vocabulary order
MyHist_view(hist) == [i \in 1..Len(TACTICS) |-> <<TACTICS[i], hist[TACTICS[i]]>>]

\* ---- the graph: one edge src -> tgt per TacEdge (a multigraph)
\* self.graph.in_edges(node)
in_edges(es, node) == {i \in DOMAIN es : es[i].tgt = node}
\* self.graph.in_degree(node)
in_degree(es, node) == Cardinality(in_edges(es, node))

\* the test of _root, without the count of self-loops: in-degree zero
IsRootNode_noInEdge(es, node) == in_degree(es, node) = 0
\* the test of _root: every in-edge is a self-loop
IsRootNode(es, node) ==
    LET self_edges == Cardinality({i \in in_edges(es, node) : es[i].src = es[i].tgt})
    IN in_degree(es, node) = self_edges

\* _root: the first node, in iteration order, that passes the test; 0 is None
RECURSIVE root_from(_, _, _)
\* _root that takes the first node without the test
root_from_firstNode(nodes, es, k) == IF k > Len(nodes) THEN 0 ELSE nodes[k]
root_from(nodes, es, k) ==
    IF k > Len(nodes) THEN 0
    ELSE IF IsRootNode(es, nodes[k]) THEN nodes[k]
    ELSE root_from(nodes, es, k + 1)

\* len(nx.algorithms.shortest_path(graph, source, target)): the number of
\* nodes on a shortest path, found breadth first; 0 stands for NetworkXNoPath
RECURSIVE path_len(_, _, _, _)
path_len(es, reached, target, n) ==
    IF target \in reached THEN n
    ELSE LET more == reached \cup {es[i].tgt : i \in {j \in DOMAIN es : es[j].src \in reached}}
         IN IF more = reached THEN 0 ELSE path_len(es, more, target, n + 1)
shortest_path_len(es, source, target) == path_len(es, {source}, target, 1)

\* _tactics: tid -> the edges with that tid, in edge-list order (as indices)
RECURSIVE tactics_from(_, _, _)
tactics_from(es, k, acc) ==
    IF k > Len(es) THEN acc
    ELSE tactics_from(es, k + 1,
            IF es[k].tid \in DOMAIN acc
            THEN [acc EXCEPT ![es[k].tid] = Append(@, k)]
            ELSE MapPut(acc, es[k].tid, <<k>>))

\* the goals named by the edges that connect to an error / a terminal state
conn_goals(es, what) ==
    LET idx == {i \in DOMAIN es : es[i].conn = what}
        RECURSIVE from(_)
        from(k) == IF k > Len(es) THEN <<>>
                   ELSE IF k \in idx THEN <<es[k].tgt>> \o from(k + 1) ELSE from(k + 1)
    IN from(1)

\* seen.add that runs only when the edge has added its entry
seen_add_ifEntry(seen, edge, added) == IF added THEN seen \cup {edge.tid} ELSE seen
\* seen.add(edge.tid), after the try block
seen_add(seen, edge, added) == seen \cup {edge.tid}

\* _flatten_view; an entry is [depth, tgt, rec, edge]: rec is the goal whose
\* tacst_info record the entry carries, edge the index of the edge
RECURSIVE flatten_from(_, _, _, _, _, _)
flatten_from(es, info, rt, k, seen, acc) ==
    IF k > Len(es) THEN [view |-> acc, exc |-> "none"]
    ELSE LET edge == es[k]
             depth == shortest_path_len(es, rt, edge.tgt)
             entry(rec) == [depth |-> depth, tgt |-> edge.tgt, rec |-> rec, edge |-> k]
         IN IF depth = 0
            THEN flatten_from(es, info, rt, k + 1, seen_add(seen, edge, FALSE), acc)
            ELSE IF edge.tid \in seen
            THEN flatten_from(es, info, rt, k + 1, seen_add(seen, edge, FALSE), acc)
            ELSE IF edge.tgt \in info
            THEN flatten_from(es, info, rt, k + 1, seen_add(seen, edge, TRUE),
                              Append(acc, entry(edge.tgt)))
            ELSE IF edge.conn # "none"
            THEN (IF edge.src \in info
                  THEN flatten_from(es, info, rt, k + 1, seen_add(seen, edge, TRUE),
                                    Append(acc, entry(edge.src)))
                  ELSE [view |-> acc, exc |-> "KeyError"])
            ELSE flatten_from(es, info, rt, k + 1, seen_add(seen, edge, FALSE), acc)

\* tac.name.split()[0]; a name is kept as the list of its whitespace-delimited tokens
first_token(name) == name[1]

\* the test "tac.tkind == TacKind.ML" left out
CountsInHist_anyKind(tac) == TRUE
\* tac.tkind == TacKind.ML
CountsInHist(tac) == tac.tkind = "ML"

\* view_tactic_hist: the loop over self.tactics.items()
RECURSIVE hist_from(_, _, _, _)
hist_from(es, tacs, tids, hist) ==
    IF tids = {} THEN hist
    ELSE LET k == CHOOSE t \in tids : TRUE
             tac == es[tacs[k][1]]
         IN hist_from(es, tacs, tids \ {k},
                      IF CountsInHist(tac)
                      THEN MyHist_inc_insert(hist, first_token(tac.name), 1)
                      ELSE hist)

\* ------------------------------------------------------------------------
\* Inputs of TacTree(name, edges, graph, tacst_info, gid_tactic, decoder).
\* A TacEdge is [tid, src, tgt, tkind, name, conn]; conn is "err" when
\* conn2err() holds, "term" when conn2term() holds, "none" otherwise.

Max(S) == CHOOSE m \in S : \A x \in S : x <= m

\* tactic-application ids of n edges, up to renaming: an edge either repeats
\* an id met before or carries the next unused one
RECURSIVE TidSeqs(_)
TidSeqs(n) ==
    IF n = 0 THEN {<<>>}
    ELSE UNION {{Append(t, d) : d \in 1..(Max(Range(t) \cup {0}) + 1)} : t \in TidSeqs(n - 1)}

WithTids(es, t) == [i \in DOMAIN es |-> [es[i] EXCEPT !.tid = t[i]]]

\* the node orders of a graph on the goals 1..m: the rotations of 1..m
Rotations(m) == {[i \in 1..m |-> ((i + r - 1) % m) + 1] : r \in 0..(m - 1)}

\* the goals in increasing order
InOrder == [i \in 1..NumGoals |-> i]

\* the edges of the three families of inputs, before their ids are set
\* any graph, for the root
RootEdges(m) ==
    [tid : {0}, src : 1..m, tgt : 1..m, tkind : {"ML"},
     name : {<<TACTICS[1]>>}, conn : {"none"}]
\* any graph, with edges that may connect to a terminal state
FlatEdgeSet ==
    [tid : {0}, src : Goals, tgt : Goals, tkind : {"ML"},
     name : {<<TACTICS[1]>>}, conn : {"none", "term"}]
\* names: two of the vocabulary (one with an argument after it) and one outside it
HistNames == {<<TACTICS[1]>>, <<TACTICS[1], "H">>, <<TACTICS[17]>>, <<"<not::a::real@9>">>}
\* edges of any kind and name, all on the root goal
HistEdgeSet ==
    [tid : {0}, src : {1}, tgt : {1}, tkind : {"ML", "NOTATION"},
     name : HistNames, conn : {"none"}]

\* ------------------------------------------------------------------------
\* Actions of the tactic tree

TacInit ==
    /\ t_pc = "init"
    /\ t_nodes = <<>>
    /\ t_edges = <<>>
    /\ t_info = {}
    /\ root = 0
    /\ tactics = <<>>
    /\ flatview = <<>>
    /\ term_goals = <<>>
    /\ err_goals = <<>>
    /\ v_hist = [f_compress |-> FALSE, view |-> <<>>]
    /\ notok = <<>>
    /\ t_views = <<>>
    /\ st_rets = <<>>
    /\ h_file = <<>>

\* TacTree.__init__
TacTreeNew(in) ==
    /\ t_pc = "init"
    /\ t_nodes' = in.nodes
    /\ t_edges' = in.es
    /\ t_info' = in.info
    /\ LET rt == root_from(in.nodes, in.es, 1)
           fv == flatten_from(in.es, in.info, rt, 1, {}, <<>>)
       IN /\ root' = rt
          /\ IF rt = 0
             THEN /\ t_pc' = "AssertionError"
                  /\ UNCHANGED <<tactics, flatview, term_goals, err_goals>>
             ELSE /\ term_goals' = conn_goals(in.es, "term")
                  /\ err_goals' = conn_goals(in.es, "err")
                  /\ tactics' = tactics_from(in.es, 1, <<>>)
                  /\ flatview' = fv.view
                  /\ t_pc' = IF fv.exc = "none" THEN "built" ELSE fv.exc
    /\ UNCHANGED <<v_hist, notok, t_views, st_rets, h_file>>
    /\ UNCHANGED <<decVars, envVars, rwVars, foldVars>>

\* view_tactic_hist(f_compress)
view_tactic_hist(f_compress) ==
    /\ t_pc = "built"
    /\ LET hist == hist_from(t_edges, tactics, DOMAIN tactics, MyHist_empty)
           view == MyHist_view(hist)
       IN v_hist' = [f_compress |-> f_compress,
                     view |-> IF f_compress THEN [i \in DOMAIN view |-> view[i][2]]
                              ELSE view]
    /\ UNCHANGED <<t_pc, t_nodes, t_edges, t_info, root, tactics, flatview, term_goals, err_goals>>
    /\ UNCHANGED <<notok, t_views, st_rets, h_file>>
    /\ UNCHANGED <<decVars, envVars, rwVars, foldVars>>

\* the loop of view_term_paths / view_err_paths over the goals gs: the
\* lengths of the shortest paths found (a path is kept as its number of nodes)
\* and self.notok, which grows by every goal without a path
RECURSIVE view_paths(_, _, _, _)
view_paths(gs, k, acc, nk) ==
    IF k > Len(gs) THEN [acc |-> acc, notok |-> nk]
    ELSE LET n == shortest_path_len(t_edges, root, gs[k])
         IN IF n = 0 THEN view_paths(gs, k + 1, acc, Append(nk, gs[k]))
            ELSE view_paths(gs, k + 1, Append(acc, n), nk)

\* stats(): the record returned and self.notok after the call
stats_info ==
    LET tp == view_paths(term_goals, 1, <<>>, notok)
        ep == view_paths(err_goals, 1, <<>>, tp.notok)
        view == MyHist_view(hist_from(t_edges, tactics, DOMAIN tactics, MyHist_empty))
    IN [hist |-> [i \in DOMAIN view |-> view[i][2]],
        num_tacs |-> Cardinality(DOMAIN tactics),
        num_goals |-> Len(t_nodes),
        num_term |-> Len(term_goals),
        num_err |-> Len(err_goals),
        term_path_lens |-> tp.acc,
        err_path_lens |-> ep.acc,
        notok |-> ep.notok]

MaxViews == 2      \* calls of view and statistics operations on one tree
MaxCtx == 2        \* context entries of a tactic state handed to the head
MaxAstNodes == 5   \* nodes of a kernel term folded
MaxClauses == 2    \* clauses of a Cases node folded
MaxCalls == 3      \* operations called on one TacStFolder after construction

ViewFrame ==
    /\ UNCHANGED <<t_pc, t_nodes, t_edges, t_info, root, tactics, flatview, term_goals, err_goals>>
    /\ UNCHANGED <<decVars, envVars, rwVars, foldVars>>

\* view_term_paths()
view_term_paths ==
    /\ t_pc = "built" /\ Len(t_views) < MaxViews
    /\ notok' = view_paths(term_goals, 1, <<>>, notok).notok
    /\ t_views' = Append(t_views, "view_term_paths")
    /\ UNCHANGED <<v_hist, st_rets, h_file>>
    /\ ViewFrame

\* view_err_paths()
view_err_paths ==
    /\ t_pc = "built" /\ Len(t_views) < MaxViews
    /\ notok' = view_paths(err_goals, 1, <<>>, notok).notok
    /\ t_views' = Append(t_views, "view_err_paths")
    /\ UNCHANGED <<v_hist, st_rets, h_file>>
    /\ ViewFrame

\* stats()
stats ==
    /\ t_pc = "built" /\ Len(t_views) < MaxViews
    /\ notok' = stats_info.notok
    /\ st_rets' = Append(st_rets, stats_info)
    /\ t_views' = Append(t_views, "stats")
    /\ UNCHANGED <<v_hist, h_file>>
    /\ ViewFrame

\* log_stats(h_file): stats(), and the record written as one line
log_stats ==
    /\ t_pc = "built" /\ Len(t_views) < MaxViews
    /\ notok' = stats_info.notok
    /\ st_rets' = Append(st_rets, stats_info)
    /\ h_file' = Append(h_file, stats_info)
    /\ t_views' = Append(t_views, "log_stats")
    /\ UNCHANGED v_hist
    /\ ViewFrame

\* dump(): prints, the last two lines from view_term_paths() and
\* view_err_paths()
dump ==
    /\ t_pc = "built" /\ Len(t_views) < MaxViews
    /\ notok' = view_paths(err_goals, 1, <<>>, view_paths(term_goals, 1, <<>>, notok).notok).notok
    /\ t_views' = Append(t_views, "dump")
    /\ UNCHANGED <<v_hist, st_rets, h_file>>
    /\ ViewFrame

\* any graph on the goals 1..m and any node order; every edge its own
\* tactic application
TacRootNext ==
    /\ t_pc = "init"
    /\ \E m \in 1..NumGoals, n \in 0..MaxEdges :
          \E ns \in Rotations(m), es \in [1..n -> RootEdges(m)] :
              TacTreeNew([nodes |-> ns, es |-> WithTids(es, [i \in 1..n |-> i]),
                          info |-> 1..m])

\* any graph; edges that share tactic applications and may connect to a
\* terminal state; the last goal has no proof-state record
TacFlatNext ==
    /\ t_pc = "init"
    /\ \E n \in 1..FlatEdges :
          \E es \in [1..n -> FlatEdgeSet], t \in TidSeqs(n) :
              TacTreeNew([nodes |-> InOrder, es |-> WithTids(es, t),
                          info |-> Goals \ {NumGoals}])

\* a first edge that shapes the graph and a second that connects to a
\* terminal or an error state, and the view and statistics operations
TacStatsNext ==
    \/ /\ t_pc = "init"
       /\ \E e1 \in RootEdges(NumGoals), e2 \in RootEdges(NumGoals), c \in {"term", "err"} :
             TacTreeNew([nodes |-> InOrder,
                         es |-> WithTids(<<e1, [e2 EXCEPT !.conn = c]>>, <<1, 2>>),
                         info |-> Goals])
    \/ view_term_paths
    \/ view_err_paths
    \/ stats
    \/ log_stats
    \/ dump

\* edges of any kind and name that share tactic applications, and the views
TacHistNext ==
    \/ /\ t_pc = "init"
       /\ \E n \in 1..MaxEdges :
             \E es \in [1..n -> HistEdgeSet], t \in TidSeqs(n) :
                 TacTreeNew([nodes |-> InOrder, es |-> WithTids(es, t), info |-> Goals])
    \/ \E f_compress \in BOOLEAN : view_tactic_hist(f_compress)

\* ------------------------------------------------------------------------
\* Claims about the tactic tree

\* the goals all of whose in-edges are self-loops, read off the edge list
SelfLoopOnlyGoals ==
    {g \in Range(t_nodes) : \A i \in DOMAIN t_edges : t_edges[i].tgt = g => t_edges[i].src = g}

\* the graph of the example: nodes {A, B, C}, edges A -> A, A -> B, B -> C,
\* with A, B, C = 1, 2, 3
IsExampleTree ==
    /\ Range(t_nodes) = {1, 2, 3}
    /\ {<<t_edges[i].src, t_edges[i].tgt>> : i \in DOMAIN t_edges} = {<<1, 1>>, <<1, 2>>, <<2, 3>>}

\* C7: the root detected is a goal all of whose in-edges are self-loops; when
\* there is exactly one such goal it is the root, whatever the node order; for
\* the edges A -> A, A -> B, B -> C the root is A.
C7_RootDetected ==
    t_pc # "init" =>
        /\ root # 0 => root \in SelfLoopOnlyGoals
        /\ Cardinality(SelfLoopOnlyGoals) = 1 => (t_pc = "built" /\ root \in SelfLoopOnlyGoals)
        /\ IsExampleTree => root = 1

\* the example tree, with a node order in which A does not come first
C7_Witness ==
    /\ t_pc = "built"
    /\ IsExampleTree
    /\ t_nodes[1] # 1
    /\ root = 1

\* edge k is the first of the edge list with its tactic-application id
IsFirstOfTid(k) == \A j \in 1..(k - 1) : t_edges[j].tid # t_edges[k].tid

\* edge k has what an entry needs: a path from the root to its target, and
\* a proof-state record for the target or, on a terminal edge, for the source
HasEntryData(k) ==
    /\ shortest_path_len(t_edges, root, t_edges[k].tgt) # 0
    /\ \/ t_edges[k].tgt \in t_info
       \/ t_edges[k].conn # "none" /\ t_edges[k].src \in t_info

\* C8: the flattened view has at most one entry per tactic-application id;
\* an entry is built from the first edge with its id, and a first edge that
\* has a path and a record does give an entry; later edges give none.
C8_FlatviewFirstEdge ==
    t_pc = "built" =>
        /\ \A i, j \in DOMAIN flatview :
              t_edges[flatview[i].edge].tid = t_edges[flatview[j].edge].tid => i = j
        /\ \A i \in DOMAIN flatview : IsFirstOfTid(flatview[i].edge)
        /\ \A k \in DOMAIN t_edges :
              (IsFirstOfTid(k) /\ HasEntryData(k)) => \E i \in DOMAIN flatview : flatview[i].edge = k

\* the first edge of an id gave no entry, and a later edge with that id has
\* a path and a record
C8_Witness ==
    /\ t_pc = "built"
    /\ \E k1, k2 \in DOMAIN t_edges :
          /\ k1 < k2
          /\ t_edges[k1].tid = t_edges[k2].tid
          /\ IsFirstOfTid(k1)
          /\ ~HasEntryData(k1)
          /\ HasEntryData(k2)
          /\ \A i \in DOMAIN flatview : t_edges[flatview[i].edge].tid # t_edges[k1].tid

\* the tactic-application ids whose tactic (their first edge) is of ML kind
\* and has n as the first token of its name
MLTacticsNamed(n) ==
    {t_edges[k].tid : k \in {j \in DOMAIN t_edges :
        IsFirstOfTid(j) /\ t_edges[j].tkind = "ML" /\ t_edges[j].name[1] = n}}

\* the counts of the last view, whichever form it has
ViewCount(i) == IF v_hist.f_compress THEN v_hist.view[i] ELSE v_hist.view[i][2]

\* C9: the histogram has one entry per vocabulary name and no other; the
\* count of a name is the number of tactic-application ids whose tactic is of
\* ML kind and has that name as first token.
C9_TacticHist ==
    v_hist.view # <<>> =>
        /\ DOMAIN v_hist.view = DOMAIN TACTICS
        /\ \A i \in DOMAIN TACTICS :
              /\ ~v_hist.f_compress => v_hist.view[i][1] = TACTICS[i]
              /\ ViewCount(i) = Cardinality(MLTacticsNamed(TACTICS[i]))

\* one ML tactic named <coretactics::intro@0>, one ML tactic of a name outside
\* the vocabulary, and a tactic of another kind with a vocabulary name
C9_Witness ==
    /\ v_hist.view # <<>> /\ ~v_hist.f_compress
    /\ v_hist.view[1] = <<"<coretactics::intro@0>", 1>>
    /\ \E k \in DOMAIN t_edges :
          t_edges[k].tkind = "ML" /\ t_edges[k].name = <<"<not::a::real@9>">> /\ IsFirstOfTid(k)
    /\ \E k \in DOMAIN t_edges :
          t_edges[k].tkind = "NOTATION" /\ t_edges[k].name[1] = TACTICS[17] /\ IsFirstOfTid(k)

Unreachable ==
    {g \in Range(term_goals) \cup Range(err_goals) : shortest_path_len(t_edges, root, g) = 0}

\* C24: no view or statistics operation changes the tree: self.notok stays
\* as the constructor left it, every stats() on a tree returns the same
\* record, and that record lists each unreachable terminal or error goal
\* once in notok.
C24_ViewsArePure ==
    t_pc = "built" =>
        /\ notok = <<>>
        /\ \A i \in DOMAIN st_rets :
              /\ st_rets[i] = st_rets[1]
              /\ \A g \in Unreachable : Occurrences(st_rets[i].notok, g) = 1

\* C29: when no node has only self-loops as in-edges the constructor ends
\* in the assertion after _root, with no derived view computed and no tree
\* built; when such a node exists the assertion passes and a built tree has
\* a root.
C29_NoRootAborts ==
    t_pc # "init" =>
        /\ SelfLoopOnlyGoals = {} =>
              /\ t_pc = "AssertionError"
              /\ tactics = <<>> /\ flatview = <<>> /\ term_goals = <<>> /\ err_goals = <<>>
        /\ SelfLoopOnlyGoals # {} => t_pc # "AssertionError"
        /\ t_pc = "built" => root \in Range(t_nodes)

\* the graph A -> B, B -> A: every node lies on a cycle
C29_Witness ==
    /\ t_pc = "AssertionError"
    /\ Range(t_nodes) = {1, 2}
    /\ {<<t_edges[i].src, t_edges[i].tgt>> : i \in DOMAIN t_edges} = {<<1, 2>>, <<2, 1>>}

\* ========================================================================
\* The algebraic rewrite harness (ml4tputils/ml/rewrite/solver.py)
\* ========================================================================
MaxLen == 5        \* number of leaves of a generated expression is at most MaxLen

\* ------------------------------------------------------------------------
\* Terms of the toy algebra.  Text is a sequence of tokens; the kernel terms
\* are the VarExp / ConstExp / AppExp records of coq.ast.

VarExp(x) == [typ |-> "VarExp", x |-> x]

ConstExp(const) == [typ |-> "ConstExp", const |-> const]

AppExp(c, cs) == [typ |-> "AppExp", c |-> c, cs |-> cs]

\* isinstance(c, ConstExp) and c.const == Name("Top.<name>")
IsConst(c, name) == c.typ = "ConstExp" /\ c.const = <<"Top", name>>

\* "({} <+> {})".format(l, r)
format_plus(l, r) == <<"(">> \o l \o <<"<+>">> \o r \o <<")">>

\* how the session reads a name once the preamble is loaded and b is
\* introduced: e, m are the axioms Top.e, Top.m and b is a variable
read_name(tok) == IF tok = "b" THEN VarExp(<<"b">>) ELSE ConstExp(<<"Top", tok>>)

\* how the session reads the text of an expression written with the infix
\* <+> (Infix "<+>" := f): the term and the position after it
RECURSIVE read_infix_at(_, _)
read_infix_at(s, i) ==
    IF s[i] = "("
    THEN LET l == read_infix_at(s, i + 1)
             r == read_infix_at(s, l.nxt + 1)
         IN [t |-> AppExp(ConstExp(<<"Top", "f">>), <<l.t, r.t>>), nxt |-> r.nxt + 1]
    ELSE [t |-> read_name(s[i]), nxt |-> i + 1]

read_infix(s) == read_infix_at(s, 1).t

\* ------------------------------------------------------------------------
\* GenAlgExpr: the set of results over all outcomes of random.choice

RECURSIVE gen_expr(_, _)

\* GenAlgExpr._select with the operands on the wrong sides
select_swapped(length, gen_red, gen_left, gen_right) ==
    UNION {LET length2 == length - length1
               xs == gen_expr(gen_red, length1)
               ls == gen_expr(gen_left, length2)
               rs == gen_expr(gen_right, length2)
           IN {format_plus(x, y) : x \in xs, y \in ls} \cup {format_plus(y, x) : x \in xs, y \in rs}
           : length1 \in 1..(length - 1)}

\* GenAlgExpr._select
select(length, gen_red, gen_left, gen_right) ==
    UNION {LET length2 == length - length1
               xs == gen_expr(gen_red, length1)
               ls == gen_expr(gen_left, length2)
               rs == gen_expr(gen_right, length2)
           IN {format_plus(y, x) : x \in xs, y \in ls} \cup {format_plus(x, y) : x \in xs, y \in rs}
           : length1 \in 1..(length - 1)}

\* gen_expr_b, gen_expr_e, gen_expr_m: kind is the leaf; a length below 1
\* raises NameError (no result)
gen_expr(kind, length) ==
    IF length = 1 THEN {<<kind>>}
    ELSE IF length > 1 THEN select(length, kind, "e", "m")
    ELSE {}

\* gen_expr_b that generates for the leaf e
gen_expr_b_forE(length) == gen_expr("e", length)
gen_expr_b(length) == gen_expr("b", length)

gen_expr_e(length) == gen_expr("e", length)

gen_expr_m(length) == gen_expr("m", length)

GenInit ==
    /\ lemma_cnt = 0
    /\ g_ret = [kind |-> "none", length |-> 0, expr |-> <<>>, exc |-> "none"]

\* one call of gen_expr_b / gen_expr_e / gen_expr_m
GenExpr(kind, length) ==
    /\ g_ret.kind = "none"
    /\ IF length < 1
       THEN g_ret' = [kind |-> kind, length |-> length, expr |-> <<>>, exc |-> "NameError"]
       ELSE \E x \in gen_expr(kind, length) :
                g_ret' = [kind |-> kind, length |-> length, expr |-> x, exc |-> "none"]
    /\ UNCHANGED lemma_cnt
    /\ UNCHANGED <<decVars, envVars, tacVars, polVars, solVars, diffVars, prepVars, eqVars, runVars, foldVars>>

GenNext ==
    \E kind \in {"b", "e", "m"}, length \in 0..MaxLen : GenExpr(kind, length)

\* ------------------------------------------------------------------------
\* Claims about the expression generator

\* the number of leaves of the text of an expression
NumLeaves(s) == Cardinality({i \in DOMAIN s : s[i] \in {"b", "e", "m"}})

\* the terms one elimination by id_l (e <+> a = a) or id_r (a <+> m = a),
\* anywhere in the term, leads to
RECURSIVE Eliminations(_)
Eliminations(t) ==
    IF t.typ # "AppExp" THEN {}
    ELSE LET l == t.cs[1]
             r == t.cs[2]
         IN (IF IsConst(l, "e") THEN {r} ELSE {})
            \cup (IF IsConst(r, "m") THEN {l} ELSE {})
            \cup {AppExp(t.c, <<l2, r>>) : l2 \in Eliminations(l)}
            \cup {AppExp(t.c, <<l, r2>>) : r2 \in Eliminations(r)}

\* repeated elimination can take t to the term u
RECURSIVE CollapsesTo(_, _)
CollapsesTo(t, u) ==
    t = u \/ \E t2 \in Eliminations(t) : CollapsesTo(t2, u)

is_leaf(c) == c.typ \in {"VarExp", "ConstExp"}

\* PreOrder().traverse(c)
RECURSIVE PreOrder_traverse(_)
PreOrder_traverse(c) ==
    IF c.typ = "AppExp"
    THEN <<c>> \o PreOrder_traverse(c.c) \o PreOrder_traverse(c.cs[1]) \o PreOrder_traverse(c.cs[2])
    ELSE <<c>>

\* RandAlgPolicy._count: [cnt_e, cnt_m]
count(preorder) ==
    [cnt_e |-> Cardinality({i \in DOMAIN preorder : IsConst(preorder[i], "e")}),
     cnt_m |-> Cardinality({i \in DOMAIN preorder : IsConst(preorder[i], "m")})]

NoElim == [elim_e |-> FALSE, elim_m |-> FALSE]

RECURSIVE reduce(_, _, _)

\* RandAlgPolicy._reduce testing for a literal e on the left before a literal
\* m on the right in mode "e"
reduce_eFirst(red, c, fl) ==
    IF fl.elim_m \/ fl.elim_e THEN [c |-> c, fl |-> fl]
    ELSE IF c.typ # "AppExp" THEN [c |-> c, fl |-> fl]
    ELSE LET left_c == c.cs[1]
             right_c == c.cs[2]
             r1 == reduce("e", left_c, fl)
             r2 == reduce("m", right_c, r1.fl)
             rec == [c |-> AppExp(c.c, <<r1.c, r2.c>>), fl |-> r2.fl]
             take_l == [c |-> left_c, fl |-> [fl EXCEPT !.elim_m = TRUE]]
             take_r == [c |-> right_c, fl |-> [fl EXCEPT !.elim_e = TRUE]]
         IN IF red = "e"
            THEN IF IsConst(left_c, "e") /\ is_leaf(right_c) THEN take_r
                 ELSE IF IsConst(right_c, "m") THEN take_l
                 ELSE rec
            ELSE IF IsConst(left_c, "e") THEN take_r
                 ELSE IF IsConst(right_c, "m") /\ is_leaf(left_c) THEN take_l
                 ELSE rec

\* RandAlgPolicy._reduce; fl are the flags self.elim_e, self.elim_m, and the
\* result is the term returned with the flags after the call
reduce(red, c, fl) ==
    IF fl.elim_m \/ fl.elim_e THEN [c |-> c, fl |-> fl]
    ELSE IF c.typ # "AppExp" THEN [c |-> c, fl |-> fl]
    ELSE LET left_c == c.cs[1]
             right_c == c.cs[2]
             r1 == reduce("e", left_c, fl)
             r2 == reduce("m", right_c, r1.fl)
             rec == [c |-> AppExp(c.c, <<r1.c, r2.c>>), fl |-> r2.fl]
             take_l == [c |-> left_c, fl |-> [fl EXCEPT !.elim_m = TRUE]]
             take_r == [c |-> right_c, fl |-> [fl EXCEPT !.elim_e = TRUE]]
         IN CASE red = "e" ->
                    IF IsConst(right_c, "m") THEN take_l
                    ELSE IF IsConst(left_c, "e") /\ is_leaf(right_c) THEN take_r
                    ELSE rec
              [] red = "m" ->
                    IF IsConst(left_c, "e") THEN take_r
                    ELSE IF IsConst(right_c, "m") /\ is_leaf(left_c) THEN take_l
                    ELSE rec
              [] red = "em" ->
                    IF IsConst(right_c, "m") THEN take_l
                    ELSE IF IsConst(left_c, "e") /\ count(PreOrder_traverse(right_c)).cnt_e >= 1
                         THEN take_r
                    ELSE rec
              [] red = "me" ->
                    IF IsConst(left_c, "e") THEN take_r
                    ELSE IF IsConst(right_c, "m") /\ count(PreOrder_traverse(left_c)).cnt_m >= 1
                         THEN take_l
                    ELSE rec

\* RandAlgPolicy._reduce2
reduce2(red, c) == reduce(red, c, NoElim)

\* _select that reports id_r for an e-elimination and id_l for an m-elimination
RandAlgPolicy_select_swapped(c) ==
    LET r == reduce2("e", c)
    IN IF r.fl.elim_e THEN [dir |-> "id_r", c |-> r.c]
       ELSE IF r.fl.elim_m THEN [dir |-> "id_l", c |-> r.c]
       ELSE [dir |-> "None", c |-> c]

\* RandAlgPolicy._select: every one of the 10 tries computes the same
\* _reduce2("e", c), so the loop returns in its first try or falls through
\* and returns None
RandAlgPolicy_select(c) ==
    LET r == reduce2("e", c)
    IN IF r.fl.elim_e THEN [dir |-> "id_l", c |-> r.c]
       ELSE IF r.fl.elim_m THEN [dir |-> "id_r", c |-> r.c]
       ELSE [dir |-> "None", c |-> c]

\* RandAlgPolicy._strip: the part of a dotted name after its last dot
strip(name) == name[Len(name)]

\* RandAlgPolicy._pp
RECURSIVE pp(_)
pp(c) ==
    IF c.typ = "VarExp" THEN <<strip(c.x)>>
    ELSE IF c.typ = "ConstExp" THEN <<strip(c.const)>>
    ELSE <<"(">> \o pp(c.c) \o pp(c.cs[1]) \o pp(c.cs[2]) \o <<")">>

\* "surgery {} ({}) ({}).".format(rw_dir, self._pp(goal_c), self._pp(rw_c))
surgery_text(rw_dir, goal_c, rw_c) ==
    <<"surgery", rw_dir, "(">> \o pp(goal_c) \o <<")", "(">> \o pp(rw_c) \o <<")", ".">>

\* RandAlgPolicy.next_proof_step: unpacking None raises TypeError
next_proof_step(goal_c) ==
    LET sel == RandAlgPolicy_select(goal_c)
    IN IF sel.dir = "None" THEN <<"TypeError">>
       ELSE surgery_text(sel.dir, goal_c, sel.c)

\* the terms with exactly n leaves over b, e, m
RECURSIVE AlgTerms(_)
AlgTerms(n) ==
    IF n = 1 THEN {read_name("b"), read_name("e"), read_name("m")}
    ELSE UNION {{AppExp(ConstExp(<<"Top", "f">>), <<l, r>>) : l \in AlgTerms(k), r \in AlgTerms(n - k)}
                : k \in 1..(n - 1)}

PolInit ==
    /\ p_goal = <<>>
    /\ p_ret = [dir |-> "None", c |-> <<>>]
    /\ p_step = <<>>
    /\ elim_e = FALSE
    /\ elim_m = FALSE
    /\ r_in = <<>>
    /\ r_out = <<>>

\* one call policy.next_proof_step(goal_c)
NextProofStep(goal_c) ==
    /\ p_goal = <<>>
    /\ p_goal' = goal_c
    /\ p_ret' = RandAlgPolicy_select(goal_c)
    /\ p_step' = next_proof_step(goal_c)
    /\ elim_e' = reduce2("e", goal_c).fl.elim_e
    /\ elim_m' = reduce2("e", goal_c).fl.elim_m
    /\ UNCHANGED <<r_in, r_out>>
    /\ UNCHANGED <<decVars, envVars, tacVars, genVars, solVars, diffVars, prepVars, eqVars, runVars, foldVars>>

PolNext ==
    /\ p_goal = <<>>
    /\ \E n \in 1..MaxLen : \E goal_c \in AlgTerms(n) : NextProofStep(goal_c)

\* one call policy._reduce2(red, c)
Reduce2(red, c) ==
    /\ r_in = <<>> /\ p_goal = <<>>
    /\ r_in' = [red |-> red, c |-> c]
    /\ r_out' = reduce2(red, c).c
    /\ elim_e' = reduce2(red, c).fl.elim_e
    /\ elim_m' = reduce2(red, c).fl.elim_m
    /\ UNCHANGED <<p_goal, p_ret, p_step>>
    /\ UNCHANGED <<decVars, envVars, tacVars, genVars, solVars, diffVars, prepVars, eqVars, runVars, foldVars>>

\* a reduction pass in any mode, or a proof step, on any term
PolPassNext ==
    \/ /\ r_in = <<>> /\ p_goal = <<>>
       /\ \E n \in 1..MaxLen : \E goal_c \in AlgTerms(n) : NextProofStep(goal_c)
    \/ /\ r_in = <<>> /\ p_goal = <<>>
       /\ \E red \in {"e", "m", "em", "me"}, n \in 1..(MaxLen - 1) :
             \E c \in AlgTerms(n) : Reduce2(red, c)

RunInit ==
    /\ run_expr = <<>>
    /\ run_c = <<>>
    /\ run_steps = <<>>
    /\ run_exc = "none"

\* gen_expr_b(length), and the expression as the term the session reads
RunGenerate(length) ==
    /\ run_expr = <<>>
    /\ \E x \in gen_expr_b(length) :
          /\ run_expr' = read_infix(x)
          /\ run_c' = read_infix(x)
    /\ UNCHANGED <<run_steps, run_exc>>
    /\ UNCHANGED <<decVars, envVars, tacVars, genVars, polVars, solVars, diffVars, prepVars, eqVars, foldVars>>

\* policy.next_proof_step(run_c), and the reduced term as the next goal
RunStep ==
    /\ run_expr # <<>> /\ run_exc = "none"
    /\ run_c # read_name("b")
    /\ LET sel == RandAlgPolicy_select(run_c)
       IN IF sel.dir = "None"
          THEN /\ run_exc' = "TypeError"
               /\ UNCHANGED <<run_c, run_steps>>
          ELSE /\ run_c' = sel.c
               /\ run_steps' = Append(run_steps, [dir |-> sel.dir, from |-> run_c, to |-> sel.c])
               /\ run_exc' = "none"
    /\ UNCHANGED run_expr
    /\ UNCHANGED <<decVars, envVars, tacVars, genVars, polVars, solVars, diffVars, prepVars, eqVars, foldVars>>

RunNext ==
    \/ \E length \in 2..MaxLen : RunGenerate(length)
    \/ RunStep

\* ------------------------------------------------------------------------
\* Claims about the rewrite policy

\* C12: for a goal whose root application has the literal m as right child
\* the policy reports id_r and the left child; for a root application with
\* the literal e as left child and a leaf other than m as right child it
\* reports id_l and the right child; (e <+> b) gives (id_l, b) and (b <+> m)
\* gives (id_r, b).
C12_PolicyElimination ==
    (p_goal # <<>> /\ p_goal.typ = "AppExp") =>
        LET left_c == p_goal.cs[1]
            right_c == p_goal.cs[2]
        IN /\ IsConst(right_c, "m") => p_ret = [dir |-> "id_r", c |-> left_c]
           /\ (IsConst(left_c, "e") /\ is_leaf(right_c) /\ ~IsConst(right_c, "m"))
                  => p_ret = [dir |-> "id_l", c |-> right_c]
           /\ p_goal = read_infix(<<"(", "e", "<+>", "b", ")">>)
                  => (p_ret = [dir |-> "id_l", c |-> read_name("b")]
                      /\ p_step = <<"surgery", "id_l", "(", "(", "f", "e", "b", ")", ")", "(", "b", ")", ".">>)
           /\ p_goal = read_infix(<<"(", "b", "<+>", "m", ")">>)
                  => p_ret = [dir |-> "id_r", c |-> read_name("b")]

\* the policy was asked about (e <+> m): both patterns are there and it
\* reports id_r with e
C12_Witness ==
    /\ p_goal = read_infix(<<"(", "e", "<+>", "m", ")">>)
    /\ p_ret = [dir |-> "id_r", c |-> read_name("e")]

\* the application nodes of t in preorder, each as its path from the root
\* (1 the left operand, 2 the right)
RECURSIVE AppPaths(_, _)
AppPaths(t, p) ==
    IF t.typ # "AppExp" THEN <<>>
    ELSE <<p>> \o AppPaths(t.cs[1], Append(p, 1)) \o AppPaths(t.cs[2], Append(p, 2))

RECURSIVE SubAt(_, _)
SubAt(t, p) == IF p = <<>> THEN t ELSE SubAt(t.cs[p[1]], Tail(p))

RECURSIVE ReplaceAt(_, _, _)
ReplaceAt(t, p, u) ==
    IF p = <<>> THEN u
    ELSE AppExp(t.c, [t.cs EXCEPT ![p[1]] = ReplaceAt(t.cs[p[1]], Tail(p), u)])

\* the mode in which a pass begun in mode red looks at the node at path p:
\* red at the root, e at a left operand, m at a right operand
ModeAt(red, p) == IF p = <<>> THEN red ELSE IF p[Len(p)] = 1 THEN "e" ELSE "m"

\* the leaf a pass removes at the application t looked at in mode md: the
\* modes e and em look for m on the right first, m and me for e on the left
\* first; the second pattern of a mode is narrowed by a test on the sibling
Removes(md, t) ==
    LET l == t.cs[1]
        r == t.cs[2]
        has(u, name) == \E i \in DOMAIN PreOrder_traverse(u) : IsConst(PreOrder_traverse(u)[i], name)
    IN CASE md = "e" -> IF IsConst(r, "m") THEN "m"
                        ELSE IF IsConst(l, "e") /\ r.typ # "AppExp" THEN "e" ELSE "none"
         [] md = "m" -> IF IsConst(l, "e") THEN "e"
                        ELSE IF IsConst(r, "m") /\ l.typ # "AppExp" THEN "m" ELSE "none"
         [] md = "em" -> IF IsConst(r, "m") THEN "m"
                         ELSE IF IsConst(l, "e") /\ has(r, "e") THEN "e" ELSE "none"
         [] md = "me" -> IF IsConst(l, "e") THEN "e"
                         ELSE IF IsConst(r, "m") /\ has(l, "m") THEN "m" ELSE "none"

\* the first application in preorder at which a pass in mode red removes a
\* leaf, as an index into AppPaths (0 when there is none)
FirstMatch(red, t) ==
    LET ps == AppPaths(t, <<>>)
        hits == {i \in DOMAIN ps : Removes(ModeAt(red, ps[i]), SubAt(t, ps[i])) # "none"}
    IN IF hits = {} THEN 0 ELSE CHOOSE i \in hits : \A j \in hits : i <= j

\* what a pass in mode red on t must return and flag
PassOutcome(red, t) ==
    LET ps == AppPaths(t, <<>>)
        i == FirstMatch(red, t)
        node == SubAt(t, ps[i])
        leaf == Removes(ModeAt(red, ps[i]), node)
    IN IF i = 0 THEN [c |-> t, elim_e |-> FALSE, elim_m |-> FALSE]
       ELSE [c |-> ReplaceAt(t, ps[i], IF leaf = "e" THEN node.cs[2] ELSE node.cs[1]),
             elim_e |-> leaf = "e", elim_m |-> leaf = "m"]

\* C28: in a reduction pass at most one elimination fires: the flags are
\* never both set; the term returned is the input with one e or m leaf and
\* its parent application removed at the first application in preorder that
\* matches (the input itself when none matches), the e-flag is set exactly
\* when an e was removed and the m-flag exactly when an m was; _select
\* reports id_l exactly when the e-flag is set and id_r exactly when the
\* m-flag is set, with the same term.
C28_OneElimination ==
    /\ ~(elim_e /\ elim_m)
    /\ r_in # <<>> =>
          PassOutcome(r_in.red, r_in.c) = [c |-> r_out, elim_e |-> elim_e, elim_m |-> elim_m]
    /\ p_goal # <<>> =>
          /\ PassOutcome("e", p_goal) = [c |-> p_ret.c, elim_e |-> elim_e, elim_m |-> elim_m]
          /\ p_ret.dir = "id_l" <=> elim_e
          /\ p_ret.dir = "id_r" <=> elim_m

\* a pass over ((b <+> e) <+> (e <+> m)): nothing matches at the root nor in
\* the left operand, and the right operand, looked at in mode m, loses its e
\* although an m stands to its right
C28_Witness ==
    /\ p_goal = read_infix(<<"(", "(", "b", "<+>", "e", ")", "<+>", "(", "e", "<+>", "m", ")", ")">>)
    /\ elim_e /\ ~elim_m
    /\ p_ret = [dir |-> "id_l",
                c |-> read_infix(<<"(", "(", "b", "<+>", "e", ")", "<+>", "m", ")">>)]

\* the terms one elimination of a left e by id_l leads to
RECURSIVE ElimLeftE(_)
ElimLeftE(t) ==
    IF t.typ # "AppExp" THEN {}
    ELSE (IF IsConst(t.cs[1], "e") THEN {t.cs[2]} ELSE {})
         \cup {AppExp(t.c, <<l2, t.cs[2]>>) : l2 \in ElimLeftE(t.cs[1])}
         \cup {AppExp(t.c, <<t.cs[1], r2>>) : r2 \in ElimLeftE(t.cs[2])}

\* the terms one elimination of a right m by id_r leads to
RECURSIVE ElimRightM(_)
ElimRightM(t) ==
    IF t.typ # "AppExp" THEN {}
    ELSE (IF IsConst(t.cs[2], "m") THEN {t.cs[1]} ELSE {})
         \cup {AppExp(t.c, <<l2, t.cs[2]>>) : l2 \in ElimRightM(t.cs[1])}
         \cup {AppExp(t.c, <<t.cs[1], r2>>) : r2 \in ElimRightM(t.cs[2])}

\* the number of leaves of a term that are the variable b / leaves at all
LeavesOf(t) == {i \in DOMAIN PreOrder_traverse(t) : PreOrder_traverse(t)[i].typ # "AppExp"
                                                     /\ PreOrder_traverse(t)[i] # ConstExp(<<"Top", "f">>)}

CountB(t) == Cardinality({i \in LeavesOf(t) : PreOrder_traverse(t)[i] = read_name("b")})

\* C30: on an expression of gen_expr_b(n), n >= 2, and on every term the
\* policy's steps lead to, the policy finds an elimination (it never returns
\* without a result), every step is an instance of the axiom it reports
\* (id_l removes a left e, id_r a right m) that keeps the leaf b, and the
\* term is the leaf b after exactly n - 1 steps.
C30_PolicySolves ==
    run_expr # <<>> =>
        LET n == Cardinality(LeavesOf(run_expr))
        IN /\ run_exc = "none"
           /\ \A i \in DOMAIN run_steps :
                 /\ run_steps[i].dir \in {"id_l", "id_r"}
                 /\ run_steps[i].dir = "id_l" => run_steps[i].to \in ElimLeftE(run_steps[i].from)
                 /\ run_steps[i].dir = "id_r" => run_steps[i].to \in ElimRightM(run_steps[i].from)
                 /\ CountB(run_steps[i].to) = 1
           /\ Len(run_steps) <= n - 1
           /\ run_c = read_name("b") <=> Len(run_steps) = n - 1
           /\ run_c # read_name("b") => RandAlgPolicy_select(run_c).dir # "None"

\* a run on an expression of four leaves that ended in b after three steps,
\* with a step of each axiom
C30_Witness ==
    /\ run_expr # <<>>
    /\ Cardinality(LeavesOf(run_expr)) = 4
    /\ run_c = read_name("b")
    /\ Len(run_steps) = 3
    /\ \E i, j \in DOMAIN run_steps : run_steps[i].dir = "id_l" /\ run_steps[j].dir = "id_r"

\* ------------------------------------------------------------------------
\* The interactive session, as far as the solver depends on it

MaxTheorems == 2   \* iterations of the driver's loop

\* the text of a number
ToStr(n) == IF n < 10 THEN <<"0", "1", "2", "3", "4", "5", "6", "7", "8", "9">>[n + 1] ELSE "many"

\* "Lemma rewrite_eq_{}: forall b: G, {} = b.".format(lemma_cnt, ty)
lemma_text(cnt, ty) ==
    <<"Lemma", "rewrite_eq_", ToStr(cnt), ":", "forall", "b", ":", "G", ",">> \o ty \o <<"=", "b", ".">>

\* how the session reads the text of a term written with f in prefix form
RECURSIVE read_prefix_at(_, _)
read_prefix_at(s, i) ==
    IF s[i] = "("
    THEN LET l == read_prefix_at(s, i + 2)
             r == read_prefix_at(s, l.nxt)
         IN [t |-> AppExp(ConstExp(<<"Top", "f">>), <<l.t, r.t>>), nxt |-> r.nxt + 1]
    ELSE [t |-> read_name(s[i]), nxt |-> i + 1]

\* repeat (rewrite dir): the term with every instance of the axiom's left-hand
\* side eliminated
RECURSIVE rewrite_all(_, _)
rewrite_all(dir, t) ==
    IF t.typ # "AppExp" THEN t
    ELSE LET l == rewrite_all(dir, t.cs[1])
             r == rewrite_all(dir, t.cs[2])
         IN IF dir = "id_l" /\ IsConst(l, "e") THEN r
            ELSE IF dir = "id_r" /\ IsConst(r, "m") THEN l
            ELSE AppExp(t.c, <<l, r>>)

\* the session's answer to one command: the response and its state after it.
\* surgery dir e1 e2 succeeds when e1 = e2 follows by rewriting with dir and
\* e1 is the goal's left-hand side; reflexivity. succeeds when both sides of
\* the goal are the same term.
top_respond(mode, goal, cmd) ==
    LET stay == [res |-> "Error", mode |-> mode, goal |-> goal]
    IN CASE cmd[1] = "PREFIX" ->
               IF mode = "fresh" THEN [res |-> "ok", mode |-> "top", goal |-> goal] ELSE stay
         [] cmd[1] = "Lemma" ->
               IF mode = "top"
               THEN [res |-> "ok", mode |-> "stated",
                     goal |-> [lhs |-> read_infix_at(cmd, 10).t, rhs |-> read_name("b")]]
               ELSE stay
         [] cmd[1] = "Proof." ->
               IF mode = "stated" THEN [res |-> "ok", mode |-> mode, goal |-> goal] ELSE stay
         [] cmd[1] = "intros." ->
               IF mode = "stated" THEN [res |-> "ok", mode |-> "proof", goal |-> goal] ELSE stay
         [] cmd[1] = "reflexivity." ->
               IF mode = "proof" /\ goal.lhs = goal.rhs
               THEN [res |-> "ok", mode |-> "closed", goal |-> goal]
               ELSE stay
         [] cmd[1] = "surgery" ->
               LET e1 == read_prefix_at(cmd, 4)
                   e2 == read_prefix_at(cmd, e1.nxt + 2)
               IN IF /\ mode = "proof"
                     /\ rewrite_all(cmd[2], e1.t) = rewrite_all(cmd[2], e2.t)
                     /\ e1.t = goal.lhs
                  THEN [res |-> "ok", mode |-> mode, goal |-> [goal EXCEPT !.lhs = e2.t]]
                  ELSE stay
         [] cmd[1] = "Qed." ->
               IF mode = "closed" THEN [res |-> "ok", mode |-> "qed", goal |-> goal] ELSE stay
         [] OTHER -> stay

\* the conclusion as the dump gives it: eq G lhs rhs
dumped_concl(goal) ==
    AppExp([typ |-> "IndExp", ind |-> <<"Coq", "Init", "Logic", "eq">>],
           <<ConstExp(<<"Top", "G">>), goal.lhs, goal.rhs>>)

\* ------------------------------------------------------------------------
\* PyCoqAlgProver and the driver

\* is_success with every response taken as a success
is_success_always(res) == TRUE

\* PyCoqAlgProver.is_success: "Error" not in msg
is_success(res) == res # "Error"

\* sep_eq_goal taking the first two arguments of eq (the type and the
\* left-hand side)
sep_eq_goal_fromZero(c) == [left_c |-> c.cs[1], right_c |-> c.cs[2]]

\* PyCoqAlgProver.sep_eq_goal: (c.cs[1], c.cs[2]), counting from 0
sep_eq_goal(c) == [left_c |-> c.cs[2], right_c |-> c.cs[3]]

\* "\n".join(lines)
RECURSIVE join(_)
join(lines) ==
    IF lines = <<>> THEN <<>>
    ELSE IF Len(lines) = 1 THEN lines[1]
    ELSE lines[1] \o <<"\n">> \o join(Tail(lines))

\* extract_proof without the line Proof.
extract_proof_noProof(lem, prf) == join(<<lem>> \o prf \o <<<<"Qed.">>>>)

\* PyCoqAlgProver.extract_proof
extract_proof(lem, prf) == join(<<lem, <<"Proof.">>>> \o prf \o <<<<"Qed.">>>>)

Pending == s_log # <<>> /\ s_log[Len(s_log)].res = "pending"

\* self.top.sendone(cmd), until the response is back
SendOne(cmd) == s_log' = Append(s_log, [cmd |-> cmd, res |-> "pending"])

\* the session's answer to the command sent last
Answer == top_respond(top_mode, top_goal, s_log[Len(s_log)].cmd)

\* self.top.sendone(cmd) returns
Returns(ans) ==
    /\ s_log' = [s_log EXCEPT ![Len(s_log)].res = ans.res]
    /\ top_mode' = ans.mode
    /\ top_goal' = ans.goal

SolInit ==
    /\ drv_i = 0
    /\ written = 0
    /\ tops = <<>>
    /\ top_mode = "none"
    /\ top_goal = <<>>
    /\ s_pc = "loop"
    /\ lemma = <<>>
    /\ concl = <<>>
    /\ proof = <<>>
    /\ good_choices = 0
    /\ num_steps = 0
    /\ s_log = <<>>
    /\ script = <<>>

\* the driver's loop body up to CoqTop().__enter__(): gen.gen_lemma(length)
\* and the start of PyCoqAlgProver(policy, lemma)
NewProver(length, ty) ==
    /\ s_pc = "loop" /\ drv_i < MaxTheorems
    /\ drv_i' = drv_i + 1
    /\ lemma' = lemma_text(lemma_cnt, ty)
    /\ lemma_cnt' = lemma_cnt + 1
    /\ tops' = Append(tops, "entered")
    /\ top_mode' = "fresh"
    /\ top_goal' = <<>>
    /\ s_log' = <<>>
    /\ concl' = <<>> /\ proof' = <<>> /\ good_choices' = 0 /\ num_steps' = 0 /\ script' = <<>>
    /\ s_pc' = "init_prefix"
    /\ UNCHANGED <<written, g_ret>>
    /\ UNCHANGED <<decVars, envVars, tacVars, polVars, diffVars, prepVars, eqVars, runVars, foldVars>>

\* PyCoqAlgProver.__init__: the four commands it sends
InitSend ==
    /\ ~Pending
    /\ s_pc \in {"init_prefix", "init_lemma", "init_Proof", "init_intros"}
    /\ SendOne(CASE s_pc = "init_prefix" -> <<"PREFIX">>
                 [] s_pc = "init_lemma" -> lemma
                 [] s_pc = "init_Proof" -> <<"Proof.">>
                 [] s_pc = "init_intros" -> <<"intros.">>)
    /\ UNCHANGED <<drv_i, written, tops, top_mode, top_goal, s_pc, lemma, concl, proof,
                   good_choices, num_steps, script>>
    /\ UNCHANGED <<decVars, envVars, tacVars, genVars, polVars, diffVars, prepVars, eqVars, runVars, foldVars>>

\* PyCoqAlgProver.__init__: a command returns; after intros. the dump is
\* loaded and the proof state set
InitReturn ==
    /\ Pending
    /\ s_pc \in {"init_prefix", "init_lemma", "init_Proof", "init_intros"}
    /\ LET ans == Answer
       IN /\ Returns(ans)
          /\ IF s_pc = "init_intros"
             THEN /\ concl' = dumped_concl(ans.goal)
                  /\ proof' = <<<<"intros.">>>>
                  /\ s_pc' = "proof_complete"
             ELSE /\ s_pc' = (CASE s_pc = "init_prefix" -> "init_lemma"
                                [] s_pc = "init_lemma" -> "init_Proof"
                                [] s_pc = "init_Proof" -> "init_intros")
                  /\ UNCHANGED <<concl, proof>>
    /\ UNCHANGED <<drv_i, written, tops, lemma, good_choices, num_steps, script>>
    /\ UNCHANGED <<decVars, envVars, tacVars, genVars, polVars, diffVars, prepVars, eqVars, runVars, foldVars>>

\* proof_complete: sends reflexivity.
ProofCompleteSend ==
    /\ ~Pending
    /\ s_pc = "proof_complete"
    /\ SendOne(<<"reflexivity.">>)
    /\ UNCHANGED <<drv_i, written, tops, top_mode, top_goal, s_pc, lemma, concl, proof,
                   good_choices, num_steps, script>>
    /\ UNCHANGED <<decVars, envVars, tacVars, genVars, polVars, diffVars, prepVars, eqVars, runVars, foldVars>>

\* proof_complete: reflexivity. returns
ProofCompleteReturn ==
    /\ Pending
    /\ s_pc = "proof_complete"
    /\ LET ans == Answer
       IN /\ Returns(ans)
          /\ s_pc' = IF is_success(ans.res) THEN "qed" ELSE "step"
    /\ UNCHANGED <<drv_i, written, tops, lemma, concl, proof, good_choices, num_steps, script>>
    /\ UNCHANGED <<decVars, envVars, tacVars, genVars, polVars, diffVars, prepVars, eqVars, runVars, foldVars>>

\* proof_complete: sends Qed.
QedSend ==
    /\ ~Pending
    /\ s_pc = "qed"
    /\ SendOne(<<"Qed.">>)
    /\ UNCHANGED <<drv_i, written, tops, top_mode, top_goal, s_pc, lemma, concl, proof,
                   good_choices, num_steps, script>>
    /\ UNCHANGED <<decVars, envVars, tacVars, genVars, polVars, diffVars, prepVars, eqVars, runVars, foldVars>>

\* proof_complete returns True, the loop of attempt_proof ends and
\* attempt_proof adds reflexivity. to the proof
QedReturn ==
    /\ Pending
    /\ s_pc = "qed"
    /\ Returns(Answer)
    /\ proof' = Append(proof, <<"reflexivity.">>)
    /\ s_pc' = "proved"
    /\ UNCHANGED <<drv_i, written, tops, lemma, concl, good_choices, num_steps, script>>
    /\ UNCHANGED <<decVars, envVars, tacVars, genVars, polVars, diffVars, prepVars, eqVars, runVars, foldVars>>

\* attempt_proof_step up to sending the step
attempt_proof_step ==
    /\ ~Pending
    /\ s_pc = "step"
    /\ num_steps' = num_steps + 1
    /\ LET step == next_proof_step(sep_eq_goal(concl).left_c)
       IN IF step = <<"TypeError">>
          THEN s_pc' = "TypeError" /\ UNCHANGED s_log
          ELSE SendOne(step) /\ UNCHANGED s_pc
    /\ UNCHANGED <<drv_i, written, tops, top_mode, top_goal, lemma, concl, proof,
                   good_choices, script>>
    /\ UNCHANGED <<decVars, envVars, tacVars, genVars, polVars, diffVars, prepVars, eqVars, runVars, foldVars>>

\* attempt_proof_step from the response on, and the good_choices += 1 of
\* attempt_proof
StepReturn ==
    /\ Pending
    /\ s_pc = "step"
    /\ LET ans == Answer
       IN /\ Returns(ans)
          /\ IF is_success(ans.res)
             THEN /\ proof' = Append(proof, s_log[Len(s_log)].cmd)
                  /\ concl' = dumped_concl(ans.goal)
                  /\ good_choices' = good_choices + 1
                  /\ s_pc' = "proof_complete"
             ELSE /\ s_pc' = "AssertionError"
                  /\ UNCHANGED <<proof, concl, good_choices>>
    /\ UNCHANGED <<drv_i, written, tops, lemma, num_steps, script>>
    /\ UNCHANGED <<decVars, envVars, tacVars, genVars, polVars, diffVars, prepVars, eqVars, runVars, foldVars>>

\* the driver after attempt_proof: extract_proof, written to theorems.v
ExtractProof ==
    /\ s_pc = "proved"
    /\ script' = extract_proof(lemma, proof)
    /\ written' = written + 1
    /\ s_pc' = "loop"
    /\ UNCHANGED <<drv_i, tops, top_mode, top_goal, lemma, concl, proof, good_choices,
                   num_steps, s_log>>
    /\ UNCHANGED <<decVars, envVars, tacVars, genVars, polVars, diffVars, prepVars, eqVars, runVars, foldVars>>

SolNext ==
    \/ /\ s_pc = "loop"
       /\ \E length \in 1..MaxLen : \E ty \in gen_expr_b(length) : NewProver(length, ty)
    \/ InitSend
    \/ InitReturn
    \/ ProofCompleteSend
    \/ ProofCompleteReturn
    \/ QedSend
    \/ QedReturn
    \/ attempt_proof_step
    \/ StepReturn
    \/ ExtractProof

\* ------------------------------------------------------------------------
\* Claims about the solver and the driver

\* the number of leaves of the expression the current lemma states
LemmaLeaves == NumLeaves(SubSeq(lemma, 10, Len(lemma) - 3))

RECURSIVE TermLeaves(_)
TermLeaves(t) == IF t.typ = "AppExp" THEN TermLeaves(t.cs[1]) + TermLeaves(t.cs[2]) ELSE 1

LastCmd(k) == s_log[Len(s_log) - k]

\* C14: for a lemma of n leaves the solver never fails (no fatal assertion,
\* no step without a result), every accepted surgery step removes one leaf of
\* the goal, so at most n-1 steps are made, and the loop ends with
\* reflexivity. accepted and Qed. submitted.
C14_SolverTerminates ==
    lemma # <<>> =>
        /\ s_pc \notin {"TypeError", "AssertionError"}
        /\ num_steps <= LemmaLeaves - 1
        /\ good_choices <= num_steps
        /\ (top_goal # <<>> /\ ~Pending) => TermLeaves(top_goal.lhs) = LemmaLeaves - num_steps
        /\ s_pc = "proved" =>
              /\ num_steps = LemmaLeaves - 1
              /\ LastCmd(1) = [cmd |-> <<"reflexivity.">>, res |-> "ok"]
              /\ LastCmd(0) = [cmd |-> <<"Qed.">>, res |-> "ok"]

\* the lemma ((e <+> m) <+> b) = b proved in two steps
C14_Witness ==
    /\ s_pc = "proved"
    /\ SubSeq(lemma, 10, Len(lemma) - 3) = <<"(", "(", "e", "<+>", "m", ")", "<+>", "b", ")">>
    /\ num_steps = 2

\* the surgery commands the session accepted, in the order they were sent
AcceptedSurgery ==
    LET acc == SelectSeq(s_log, LAMBDA x : x.cmd[1] = "surgery" /\ x.res = "ok")
    IN [i \in DOMAIN acc |-> acc[i].cmd]

\* the lines of a text
RECURSIVE Lines(_)
Lines(text) ==
    IF \E i \in DOMAIN text : text[i] = "\n"
    THEN LET i == CHOOSE j \in DOMAIN text : text[j] = "\n" /\ \A k \in 1..(j - 1) : text[k] # "\n"
         IN <<SubSeq(text, 1, i - 1)>> \o Lines(SubSeq(text, i + 1, Len(text)))
    ELSE <<text>>

\* C15: the serialized proof script is the lemma statement, Proof., intros.,
\* the accepted surgery commands in the order sent, reflexivity., Qed.;
\* reflexivity. is in it exactly once.
C15_ProofScript ==
    script # <<>> =>
        /\ Lines(script) = <<lemma, <<"Proof.">>, <<"intros.">>>> \o AcceptedSurgery
                               \o <<<<"reflexivity.">>, <<"Qed.">>>>
        /\ Cardinality({i \in DOMAIN script : script[i] = "reflexivity."}) = 1

\* a script with two surgery lines, after two rejected reflexivity. probes
C15_Witness ==
    /\ script # <<>>
    /\ Len(AcceptedSurgery) = 2
    /\ Cardinality({i \in DOMAIN s_log : s_log[i] = [cmd |-> <<"reflexivity.">>, res |-> "Error"]}) = 2

\* C16: the commands sent to one session are the preamble, the lemma, Proof.,
\* intros., then rounds of a rejected reflexivity. followed by one surgery
\* command, then an accepted reflexivity. followed by Qed.; Qed. is sent once
\* and last; a command is sent only when every earlier one has its response.
C16_CommandOrder ==
    /\ \A i \in DOMAIN s_log :
          /\ i = 1 => s_log[i].cmd = <<"PREFIX">>
          /\ i = 2 => s_log[i].cmd = lemma
          /\ i = 3 => s_log[i].cmd = <<"Proof.">>
          /\ i = 4 => s_log[i].cmd = <<"intros.">>
          /\ (i >= 5 /\ i % 2 = 1) => s_log[i].cmd = <<"reflexivity.">>
          /\ (i >= 6 /\ i % 2 = 0) =>
                \/ s_log[i - 1].res = "Error" /\ s_log[i].cmd[1] = "surgery"
                \/ s_log[i - 1].res = "ok" /\ s_log[i].cmd = <<"Qed.">>
          /\ s_log[i].cmd = <<"Qed.">> => i = Len(s_log)
          /\ i < Len(s_log) => s_log[i].res # "pending"
    /\ s_pc \in {"proved", "loop"} /\ s_log # <<>> =>
          /\ LastCmd(1) = [cmd |-> <<"reflexivity.">>, res |-> "ok"]
          /\ LastCmd(0).cmd = <<"Qed.">>
          /\ Cardinality({i \in DOMAIN s_log : s_log[i].cmd = <<"Qed.">>}) = 1

\* a finished session with one round of rejected reflexivity. and surgery
C16_Witness ==
    /\ s_pc = "proved"
    /\ Len(s_log) = 8
    /\ s_log[5].res = "Error"
    /\ s_log[6].cmd[1] = "surgery"

\* C20: at most one session is entered and not exited at any time; once a
\* lemma's proof is complete and its script taken its session is exited, and
\* none is left entered at the end of the run.
C20_SessionsExited ==
    /\ Cardinality({i \in DOMAIN tops : tops[i] = "entered"}) <= 1
    /\ (s_pc = "loop" /\ tops # <<>>) => tops[Len(tops)] = "exited"

\* ========================================================================
\* The rewrite-dataset preparation (ml4tputils/ml/rewrite/dataset_prep.py)
\* ========================================================================
MaxNodes == 5      \* number of nodes of a mid-level tree given to diff_ast

\* the mid-level terms of coq.glob_constr that diff_ast tells apart
GRef(gref) == [typ |-> "GRef", gref |-> gref]

GVar(x) == [typ |-> "GVar", x |-> x]

GApp(g, gs) == [typ |-> "GApp", g |-> g, gs |-> gs]

RECURSIVE diff_ast_walk(_, _, _)

\* zip(c1.gs, c2.gs) from the k-th pair on
RECURSIVE diff_ast_zip(_, _, _, _)
diff_ast_zip(gs1, gs2, k, st) ==
    IF k > Len(gs1) \/ k > Len(gs2) THEN st
    ELSE diff_ast_zip(gs1, gs2, k + 1,
                      IF ~st.found THEN diff_ast_walk(gs1[k], gs2[k], st) ELSE st)

\* DiffAst._diff_ast counting the node that differs as well
diff_ast_walk_countsLast(c1, c2, st) ==
    IF c1.typ = c2.typ /\ c1.typ \in {"GRef", "GVar"}
    THEN IF ~st.found THEN [st EXCEPT !.pos = @ + 1] ELSE st
    ELSE IF c1.typ = "GApp" /\ c2.typ = "GApp"
    THEN IF ~st.found
         THEN diff_ast_zip(c1.gs, c2.gs, 1,
                           diff_ast_walk(c1.g, c2.g, [st EXCEPT !.pos = @ + 1]))
         ELSE st
    ELSE [pos |-> st.pos + 1, found |-> TRUE]

\* DiffAst._diff_ast; st is [pos, found] (self.pos, self.found)
diff_ast_walk(c1, c2, st) ==
    IF c1.typ = "GRef" /\ c2.typ = "GRef"
    THEN IF ~st.found THEN [st EXCEPT !.pos = @ + 1] ELSE st
    ELSE IF c1.typ = "GVar" /\ c2.typ = "GVar"
    THEN IF ~st.found THEN [st EXCEPT !.pos = @ + 1] ELSE st
    ELSE IF c1.typ = "GApp" /\ c2.typ = "GApp"
    THEN IF ~st.found
         THEN diff_ast_zip(c1.gs, c2.gs, 1,
                           diff_ast_walk(c1.g, c2.g, [st EXCEPT !.pos = @ + 1]))
         ELSE st
    ELSE [st EXCEPT !.found = TRUE]

\* DiffAst.diff_ast
diff_ast(c1, c2) ==
    LET st == diff_ast_walk(c1, c2, [pos |-> 0, found |-> FALSE])
    IN IF ~st.found THEN [pos |-> 0, exc |-> "AssertionError"]
       ELSE [pos |-> st.pos, exc |-> "none"]

\* the mid-level terms with exactly n nodes: applications have 1 or 2 arguments
RECURSIVE GTerms(_)
GTerms(n) ==
    IF n < 1 THEN {}
    ELSE IF n = 1 THEN {GRef("e"), GRef("m"), GVar("b")}
    ELSE UNION {{GApp(g, <<a>>) : g \in GTerms(k), a \in GTerms(n - 1 - k)} : k \in 1..(n - 2)}
         \cup UNION {UNION {{GApp(g, <<a, b>>) : g \in GTerms(k), a \in GTerms(j), b \in GTerms(n - 1 - k - j)}
                            : j \in 1..(n - 2 - k)} : k \in 1..(n - 3)}

DiffInit ==
    /\ diff_in = <<>>
    /\ diff_ret = [pos |-> 0, exc |-> "none"]

\* one call DiffAst().diff_ast(c1, c2)
DiffAstCall(c1, c2) ==
    /\ diff_in = <<>>
    /\ diff_in' = <<c1, c2>>
    /\ diff_ret' = diff_ast(c1, c2)
    /\ UNCHANGED <<decVars, envVars, tacVars, genVars, polVars, solVars, prepVars, eqVars, runVars, foldVars>>

DiffNext ==
    /\ diff_in = <<>>
    /\ \E n1 \in 1..MaxNodes, n2 \in 1..MaxNodes :
          \E c1 \in GTerms(n1), c2 \in GTerms(n2) : DiffAstCall(c1, c2)

\* ------------------------------------------------------------------------
\* Claims about diff_ast

\* the preorder traversal of a term (root, head, then each argument) as the
\* sequence of the nodes' kinds and numbers of arguments
RECURSIVE GPreorder(_)
GPreorder(c) ==
    IF c.typ = "GApp"
    THEN <<[typ |-> "GApp", n |-> Len(c.gs)]>> \o GPreorder(c.g) \o GPreorder(c.gs[1])
         \o (IF Len(c.gs) = 2 THEN GPreorder(c.gs[2]) ELSE <<>>)
    ELSE <<[typ |-> c.typ, n |-> 0]>>

\* the positions (1-based) at which two traversals differ
DiffPositions(s1, s2) == {i \in (DOMAIN s1) \cap (DOMAIN s2) : s1[i] # s2[i]}

Min(S) == CHOOSE x \in S : \A y \in S : x <= y

\* the two terms agree in shape up to a first node whose kind differs
HasKindDifference(c1, c2) ==
    LET s1 == GPreorder(c1)
        s2 == GPreorder(c2)
        D == DiffPositions(s1, s2)
    IN D # {} /\ s1[Min(D)].typ # s2[Min(D)].typ

\* the 1-based preorder position of the first node whose kind differs
FirstKindDifference(c1, c2) == Min(DiffPositions(GPreorder(c1), GPreorder(c2)))

\* the first difference is the second argument of the root application, and
\* the head and the first argument are leaves
DiffersAtSecondArg(c1, c2) ==
    /\ c1.typ = "GApp" /\ c2.typ = "GApp"
    /\ Len(c1.gs) = 2 /\ Len(c2.gs) = 2
    /\ c1.g.typ = c2.g.typ /\ c1.g.typ # "GApp"
    /\ c1.gs[1].typ = c2.gs[1].typ /\ c1.gs[1].typ # "GApp"
    /\ c1.gs[2].typ # c2.gs[2].typ

\* C13 as stated: diff_ast returns the 1-based preorder position of the first
\* node whose kind differs.
C13_OneBasedPosition ==
    (diff_in # <<>> /\ HasKindDifference(diff_in[1], diff_in[2])) =>
        diff_ret = [pos |-> FirstKindDifference(diff_in[1], diff_in[2]), exc |-> "none"]

\* C13 amended: diff_ast returns the number of nodes that precede the first
\* node whose kind differs in the preorder traversal (its 1-based position
\* less one); when that node is the second argument of the root application
\* and the head and first argument are leaves, the result is 3.
C13_NodesBeforeDifference ==
    (diff_in # <<>> /\ HasKindDifference(diff_in[1], diff_in[2])) =>
        /\ diff_ret = [pos |-> FirstKindDifference(diff_in[1], diff_in[2]) - 1, exc |-> "none"]
        /\ DiffersAtSecondArg(diff_in[1], diff_in[2]) => diff_ret.pos = 3

\* (f e m) against (f e b): the second arguments are a reference and a
\* variable
C13_Witness ==
    /\ diff_in # <<>>
    /\ DiffersAtSecondArg(diff_in[1], diff_in[2])
    /\ diff_in[1].gs[2].typ = "GRef" /\ diff_in[2].gs[2].typ = "GVar"
    /\ diff_ret.pos = 3

\* ------------------------------------------------------------------------
\* to_goalattn_dataset

MaxRecords == 2    \* records in the three lists of the input dataset together

NumSlots == 40     \* positions = [0 for _ in range(40)]

ID_R == "theorems.id_r"   \* "{}.id_r".format(FILE)

ID_L == "theorems.id_l"   \* "{}.id_l".format(FILE)

Unlabelled == [tac_bin |-> -1, subtr_bin |-> -1]

\* tac.name.startswith("surgery"), on a name given as its words
startswith_surgery(name) == name # <<>> /\ name[1] = "surgery"

\* positions[idx] += 1 on a Python list: an index outside the list raises
\* IndexError, a negative one inside it counts from the end
list_increment(positions, idx) ==
    IF idx >= Len(positions) \/ idx < 0 - Len(positions) THEN [exc |-> "IndexError", list |-> positions]
    ELSE LET i == IF idx >= 0 THEN idx + 1 ELSE Len(positions) + idx + 1
         IN [exc |-> "none", list |-> [positions EXCEPT ![i] = @ + 1]]

\* the body of the loop of clean2 for the k-th record of orig and the rest of
\* the loop; acc is [dataset, positions, pt, exc]
RECURSIVE clean2_from(_, _, _)
clean2_from(orig, k, acc) ==
    IF k > Len(orig) THEN acc
    ELSE LET tac == orig[k]
         IN IF ~startswith_surgery(tac.name) THEN clean2_from(orig, k + 1, acc)
            ELSE LET d == diff_ast(tac.tac_args[2], tac.tac_args[3])
                     pos == d.pos
                     labelled(tb, sb) ==
                         LET inc == list_increment(acc.positions, sb)
                             pt2 == [acc.pt EXCEPT ![k] = [tac_bin |-> tb, subtr_bin |-> sb]]
                         IN IF inc.exc # "none"
                            THEN [acc EXCEPT !.pt = pt2, !.exc = inc.exc]
                            ELSE clean2_from(orig, k + 1,
                                             [acc EXCEPT !.pt = pt2, !.positions = inc.list,
                                                         !.dataset = Append(@, k)])
                 IN IF d.exc # "none" THEN [acc EXCEPT !.exc = d.exc]
                    ELSE IF ID_R \in tac.gids THEN labelled(0, 2 * pos)
                    ELSE IF ID_L \in tac.gids THEN labelled(1, 2 * pos + 1)
                    ELSE [acc EXCEPT !.exc = "AssertionError"]

\* to_goalattn_dataset.clean2
clean2(orig) ==
    clean2_from(orig, 1, [dataset |-> <<>>, positions |-> [i \in 1..NumSlots |-> 0],
                          pt |-> [i \in DOMAIN orig |-> Unlabelled], exc |-> "none"])

NotCleaned(orig) ==
    [dataset |-> <<>>, positions |-> <<>>, pt |-> [i \in DOMAIN orig |-> Unlabelled],
     exc |-> "none"]

\* to_goalattn_dataset: clean2 on train, test and val in this order; an
\* exception in one ends the call
to_goalattn_dataset(poseval_dataset) ==
    LET train == clean2(poseval_dataset.train)
        test == IF train.exc = "none" THEN clean2(poseval_dataset.test)
                ELSE NotCleaned(poseval_dataset.test)
        val == IF train.exc = "none" /\ test.exc = "none" THEN clean2(poseval_dataset.val)
               ELSE NotCleaned(poseval_dataset.val)
    IN [train |-> train, test |-> test, val |-> val,
        exc |-> IF train.exc # "none" THEN train.exc
                ELSE IF test.exc # "none" THEN test.exc ELSE val.exc]

\* k applications f e (...) around x
RECURSIVE Chain(_, _)
Chain(k, x) == IF k = 0 THEN x ELSE GApp(GRef("f"), <<GRef("e"), Chain(k - 1, x)>>)

\* depths at which the surgery records below rewrite
ChainDepths == {0, 6, 7}

\* the records given: surgery steps that rewrite f e b to b under k
\* applications, with every choice of global ids, and a step that is not a
\* surgery
PrepRecords ==
    [tactr_id : 1..2, name : {<<"surgery", "id_l">>},
     tac_args : {<<GRef("id_l"), Chain(k, GApp(GRef("f"), <<GRef("e"), GVar("b")>>)), Chain(k, GVar("b"))>>
                 : k \in ChainDepths},
     gids : SUBSET {ID_R, ID_L}]
    \cup [tactr_id : 1..2, name : {<<"intros">>}, tac_args : {<<>>}, gids : {{}}]

PrepInit ==
    /\ prep_in = <<>>
    /\ prep_pt = <<>>
    /\ prep_out = <<>>
    /\ prep_exc = "none"

\* one call to_goalattn_dataset(poseval_dataset)
ToGoalattnDataset(poseval_dataset) ==
    /\ prep_in = <<>>
    /\ prep_in' = poseval_dataset
    /\ LET r == to_goalattn_dataset(poseval_dataset)
       IN /\ prep_pt' = [train |-> r.train.pt, test |-> r.test.pt, val |-> r.val.pt]
          /\ prep_out' = [train |-> r.train.dataset, test |-> r.test.dataset,
                          val |-> r.val.dataset,
                          positions |-> <<r.train.positions, r.test.positions, r.val.positions>>]
          /\ prep_exc' = r.exc
    /\ UNCHANGED <<decVars, envVars, tacVars, genVars, polVars, solVars, diffVars, eqVars, runVars, foldVars>>

PrepNext ==
    /\ prep_in = <<>>
    /\ \E n1 \in 0..MaxRecords :
          \E n2 \in 0..(MaxRecords - n1) :
             \E n3 \in 0..(MaxRecords - n1 - n2) :
                \E tr \in [1..n1 -> PrepRecords], te \in [1..n2 -> PrepRecords],
                   va \in [1..n3 -> PrepRecords] :
                       ToGoalattnDataset([train |-> tr, test |-> te, val |-> va])

\* ------------------------------------------------------------------------
\* Claims about to_goalattn_dataset

Splits == {"train", "test", "val"}

IsSurgery(r) == startswith_surgery(r.name)

\* the positions of the surgery records of a list, in order
RECURSIVE SurgeryPositions(_, _)
SurgeryPositions(orig, k) ==
    IF k > Len(orig) THEN <<>>
    ELSE (IF IsSurgery(orig[k]) THEN <<k>> ELSE <<>>) \o SurgeryPositions(orig, k + 1)

\* the label the claim gives a surgery record
ClaimedLabel(r) ==
    LET pos == diff_ast(r.tac_args[2], r.tac_args[3]).pos
    IN IF ID_R \in r.gids THEN [tac_bin |-> 0, subtr_bin |-> 2 * pos]
       ELSE [tac_bin |-> 1, subtr_bin |-> 2 * pos + 1]

HasNeither == \E sp \in Splits : \E k \in DOMAIN prep_in[sp] :
                  IsSurgery(prep_in[sp][k]) /\ prep_in[sp][k].gids \cap {ID_R, ID_L} = {}

\* C17: the call retains, in input order, exactly the surgery records, each
\* labelled tac_bin = 0, subtr_bin = 2*pos for id_r and otherwise tac_bin = 1,
\* subtr_bin = 2*pos+1 for id_l, so that subtr_bin mod 2 = tac_bin; it fails
\* with an assertion exactly when a surgery record has neither identifier;
\* records that are not surgery steps are dropped and left unlabelled.
C17_RetainsSurgery ==
    prep_in # <<>> =>
        /\ HasNeither <=> prep_exc = "AssertionError"
        /\ ~HasNeither =>
              /\ prep_exc = "none"
              /\ \A sp \in Splits :
                    /\ prep_out[sp] = SurgeryPositions(prep_in[sp], 1)
                    /\ \A k \in DOMAIN prep_in[sp] :
                          /\ IsSurgery(prep_in[sp][k]) =>
                                /\ prep_pt[sp][k] = ClaimedLabel(prep_in[sp][k])
                                /\ prep_pt[sp][k].subtr_bin % 2 = prep_pt[sp][k].tac_bin
                          /\ ~IsSurgery(prep_in[sp][k]) => prep_pt[sp][k] = Unlabelled

\* C18: a surgery record whose subtr_bin is NumSlots or more is labelled and
\* retained and the call does not fail.
C18_BeyondTableIgnored ==
    prep_in # <<>> =>
        \A sp \in Splits : \A k \in DOMAIN prep_in[sp] :
            (/\ IsSurgery(prep_in[sp][k])
             /\ prep_in[sp][k].gids \cap {ID_R, ID_L} # {}
             /\ ClaimedLabel(prep_in[sp][k]).subtr_bin >= NumSlots
             /\ ~HasNeither)
            => /\ prep_exc = "none"
               /\ prep_pt[sp][k] = ClaimedLabel(prep_in[sp][k])
               /\ \E j \in DOMAIN prep_out[sp] : prep_out[sp][j] = k

\* ========================================================================
\* AstOp.eq (ml4tputils/ml/rewrite/solver.py)
\* ========================================================================
MaxEqLeaves == 2   \* number of leaves of a term given to AstOp.eq

\* the arguments of a call of all: a function, or a list of booleans
PyFunction == [kind |-> "function"]

PyList(items) == [kind |-> "list", items |-> items]

\* Python's all(iterable): exactly one argument, which must be iterable
py_all(args) ==
    IF Len(args) # 1 THEN [val |-> FALSE, exc |-> "TypeError"]
    ELSE IF args[1].kind # "list" THEN [val |-> FALSE, exc |-> "TypeError"]
    ELSE [val |-> \A i \in DOMAIN args[1].items : args[1].items[i], exc |-> "none"]

Returned_bool(b) == [val |-> b, exc |-> "none"]

RECURSIVE AstOp_eq(_, _)

\* AstOp.eqs: all(lambda x: x, [self.eq(c1, c2) for c1, c2 in zip(cs1, cs2)])
AstOp_eqs(cs1, cs2) ==
    IF Len(cs1) = Len(cs2)
    THEN LET bs == [i \in DOMAIN cs1 |-> AstOp_eq(cs1[i], cs2[i])]
         IN IF \E i \in DOMAIN bs : bs[i].exc # "none"
            THEN [val |-> FALSE, exc |-> bs[CHOOSE i \in DOMAIN bs : bs[i].exc # "none"].exc]
            ELSE py_all(<<PyFunction, PyList([i \in DOMAIN bs |-> bs[i].val])>>)
    ELSE Returned_bool(FALSE)

\* AstOp.eq taking any two variables as equal
AstOp_eq_anyVars(c1, c2) ==
    IF c1.typ = "VarExp" /\ c2.typ = "VarExp" THEN Returned_bool(TRUE)
    ELSE IF c1.typ = "ConstExp" /\ c2.typ = "ConstExp" THEN Returned_bool(c1.const = c2.const)
    ELSE IF c1.typ = "AppExp" /\ c2.typ = "AppExp"
    THEN LET b1 == AstOp_eq(c1.c, c2.c)
             b2 == AstOp_eqs(c1.cs, c2.cs)
         IN IF b1.exc # "none" THEN b1
            ELSE IF b2.exc # "none" THEN b2
            ELSE py_all(<<PyFunction>>)
    ELSE Returned_bool(FALSE)

\* AstOp.eq; the application case ends in all(lambda x: x, )
AstOp_eq(c1, c2) ==
    IF c1.typ = "VarExp" /\ c2.typ = "VarExp" THEN Returned_bool(c1.x = c2.x)
    ELSE IF c1.typ = "ConstExp" /\ c2.typ = "ConstExp" THEN Returned_bool(c1.const = c2.const)
    ELSE IF c1.typ = "AppExp" /\ c2.typ = "AppExp"
    THEN LET b1 == AstOp_eq(c1.c, c2.c)
             b2 == AstOp_eqs(c1.cs, c2.cs)
         IN IF b1.exc # "none" THEN b1
            ELSE IF b2.exc # "none" THEN b2
            ELSE py_all(<<PyFunction>>)
    ELSE Returned_bool(FALSE)

\* the terms with exactly n leaves over the variables a, b and the constants
\* e, m
RECURSIVE EqTerms(_)
EqTerms(n) ==
    IF n = 1 THEN {VarExp(<<"a">>), VarExp(<<"b">>), ConstExp(<<"Top", "e">>), ConstExp(<<"Top", "m">>)}
    ELSE UNION {{AppExp(ConstExp(<<"Top", "f">>), <<l, r>>) : l \in EqTerms(k), r \in EqTerms(n - k)}
                : k \in 1..(n - 1)}

EqInit ==
    /\ eq_in = <<>>
    /\ eq_ret = Returned_bool(FALSE)

\* one call AstOp().eq(c1, c2)
AstOpEq(c1, c2) ==
    /\ eq_in = <<>>
    /\ eq_in' = <<c1, c2>>
    /\ eq_ret' = AstOp_eq(c1, c2)
    /\ UNCHANGED <<decVars, envVars, tacVars, genVars, polVars, solVars, diffVars, prepVars, runVars, foldVars>>

EqNext ==
    /\ eq_in = <<>>
    /\ \E n1 \in 1..MaxEqLeaves, n2 \in 1..MaxEqLeaves :
          \E c1 \in EqTerms(n1), c2 \in EqTerms(n2) : AstOpEq(c1, c2)

\* ------------------------------------------------------------------------
\* Claims about AstOp.eq

BothOf(typ) == eq_in[1].typ = typ /\ eq_in[2].typ = typ

\* what eq does on pairs that are not two applications: names compared for
\* two variables and for two constants, false for any other pairing
LeafCases ==
    /\ BothOf("VarExp") => eq_ret = Returned_bool(eq_in[1].x = eq_in[2].x)
    /\ BothOf("ConstExp") => eq_ret = Returned_bool(eq_in[1].const = eq_in[2].const)
    /\ (eq_in[1].typ # eq_in[2].typ) => eq_ret = Returned_bool(FALSE)

\* C19 as stated: on two application nodes eq returns true whatever their
\* heads and children; on two variables or two constants it returns whether
\* the names are equal; on any other pairing it returns false.
C19_AppsAlwaysEqual ==
    eq_in # <<>> =>
        /\ BothOf("AppExp") => eq_ret = Returned_bool(TRUE)
        /\ LeafCases

\* C19 amended: on two application nodes eq returns nothing: it fails with
\* a TypeError whatever their heads and children; the other cases are as
\* stated.
C19_AppsRaiseTypeError ==
    eq_in # <<>> =>
        /\ BothOf("AppExp") => eq_ret.exc = "TypeError"
        /\ LeafCases

\* eq on an application and a copy of it, and eq on two different variables
C19_Witness ==
    /\ eq_in # <<>>
    /\ \/ BothOf("AppExp") /\ eq_in[1] = eq_in[2] /\ eq_ret.exc = "TypeError"
       \/ BothOf("VarExp") /\ eq_in[1] # eq_in[2] /\ eq_ret = Returned_bool(FALSE)

\* ========================================================================
\* Folder, TacStFolder, TacStModel  (gamepad/ml/fold_model.py)
\* ========================================================================
\* Operation names are built by concatenation and slicing, so a string is the
\* sequence of its characters; str(s) is the string literal s of the source.
str(s) ==
    CASE s = "identity" -> <<"i", "d", "e", "n", "t", "i", "t", "y">>
      [] s = "input_dropout_f" -> <<"i", "n", "p", "u", "t", "_", "d", "r", "o", "p", "o", "u", "t", "_", "f">>
      [] s = "_cell_f" -> <<"_", "c", "e", "l", "l", "_", "f">>
      [] s = "_ln_f" -> <<"_", "l", "n", "_", "f">>
      [] s = "ast" -> <<"a", "s", "t">>
      [] s = "ctx" -> <<"c", "t", "x">>
      [] s = "ast_tree" -> <<"a", "s", "t", "_", "t", "r", "e", "e">>
      [] s = "ctx_tree" -> <<"c", "t", "x", "_", "t", "r", "e", "e">>
      [] s = "_lstm" -> <<"_", "l", "s", "t", "m">>
      [] s = "" -> <<>>
      [] s = "attn_q_f" -> <<"a", "t", "t", "n", "_", "q", "_", "f">>
      [] s = "attn_identity" -> <<"a", "t", "t", "n", "_", "i", "d", "e", "n", "t", "i", "t", "y">>
      [] s = "attn_sv_f" -> <<"a", "t", "t", "n", "_", "s", "v", "_", "f">>
      [] s = "embed_lookup_f" -> <<"e", "m", "b", "e", "d", "_", "l", "o", "o", "k", "u", "p", "_", "f">>
      [] s = "lstm" -> <<"l", "s", "t", "m">>
      [] s = "tree" -> <<"t", "r", "e", "e">>
      [] s = "ast_" -> <<"a", "s", "t", "_">>
      [] s = "ctx_" -> <<"c", "t", "x", "_">>
      [] s = "proj_f" -> <<"p", "r", "o", "j", "_", "f">>
      [] s = "final_f" -> <<"f", "i", "n", "a", "l", "_", "f">>
      [] s = "var_normal" -> <<"v", "a", "r", "_", "n", "o", "r", "m", "a", "l">>

\* ---- values handed to the folder
\* self.model.<name>, a learned parameter
Param(name) == [k |-> "param", name |-> name]

\* a tensor built on the spot from v
Tensor(v) == [k |-> "tensor", v |-> v]

\* what add() returns: the idx-th operation of the gen-th Fold object
Handle(gen, idx) == [k |-> "node", gen |-> gen, idx |-> idx]

NoValue == [k |-> "none"]

\* ---- the state a fold threads through its calls:
\*   cfg, gen : the configuration and the current Fold object
\*   ops      : the operations enqueued on it
\*   D, L     : the dicts and lists FastEnv objects refer to
\*   folded   : TacStFolder.folded
\*   log      : what happened, in order
\*   exc      : the exception in flight, "none" otherwise
Raised(st) == st.exc # "none"

Raise(st, exc) == [st |-> [st EXCEPT !.exc = exc], ev |-> NoValue]

Logged(st, e) == [st EXCEPT !.log = Append(@, e)]

\* Folder.add(op, *args)
Folder_add(st, op, args) ==
    IF Raised(st) THEN [st |-> st, ev |-> NoValue]
    ELSE [st |-> [st EXCEPT !.ops = Append(@, [op |-> op, args |-> args])],
          ev |-> Handle(st.gen, Len(st.ops) + 1)]

\* Folder.__init__: the cap table
Folder_max_batch_ops(cuda) ==
    IF cuda THEN EmptyMap
    ELSE LET names == <<str(""), str("lstm"), str("tree")>>
             cells == {str("ast_") \o names[i] \o str("_cell_f") : i \in DOMAIN names}
                      \cup {str("ctx_") \o names[i] \o str("_cell_f") : i \in DOMAIN names}
             keys == {str("embed_lookup_f"), str("proj_f"), str("final_f")} \cup cells
         IN [key \in keys |-> IF key = str("embed_lookup_f") THEN 128 ELSE 32]

\* get_other(l, index): the item at index (Python indices from 0, negative
\* ones wrapped) and the other items
get_other(l, index) ==
    LET idx == index % Len(l)
    IN [item |-> l[idx + 1],
        other |-> SubSeq(l, 1, idx) \o SubSeq(l, idx + 2, Len(l))]

\* for i, x in enumerate(xs): xs[i] = folder.add('input_dropout_f', x)
RECURSIVE dropout_xs(_, _, _)
dropout_xs(st, xs, i) ==
    IF i > Len(xs) THEN [st |-> st, xs |-> xs]
    ELSE LET r == Folder_add(st, str("input_dropout_f"), <<xs[i]>>)
         IN dropout_xs(r.st, [xs EXCEPT ![i] = r.ev], i + 1)

\* for i, x in enumerate(xs): hidden = folder.add(name + '_cell_f', x, hidden)
RECURSIVE cell_seq(_, _, _, _, _)
cell_seq(name, st, xs, i, hidden) ==
    IF i > Len(xs) THEN [st |-> st, ev |-> hidden]
    ELSE LET r == Folder_add(st, name \o str("_cell_f"), <<xs[i], hidden>>)
         IN cell_seq(name, r.st, xs, i + 1, r.ev)

\* seq_embed(name, folder, xs, init, get_hiddens, ln, input_dropout,
\* conclu_pos); get_hiddens is False at every call site
seq_embed(name, st, xs, init, get_hiddens, ln, input_dropout, conclu_pos) ==
    LET r0 == Folder_add(st, str("identity"), <<init>>)
        r1 == IF input_dropout
              THEN Folder_add(r0.st, str("input_dropout_f"), <<r0.ev>>) ELSE r0
        rx == IF input_dropout THEN dropout_xs(r1.st, xs, 1)
              ELSE [st |-> r1.st, xs |-> xs]
        rc == cell_seq(name, rx.st, rx.xs, 1, r1.ev)
        n3 == IF Len(name) < 3 THEN Len(name) ELSE 3
    IN IF ln THEN Folder_add(rc.st, SubSeq(name, 1, n3) \o str("_ln_f"), <<rc.ev>>)
       ELSE rc

\* for x in other: sv = folder.add('attn_sv_f', q, x, sv)
RECURSIVE attn_seq(_, _, _, _, _)
attn_seq(st, q, other, i, sv) ==
    IF i > Len(other) THEN [st |-> st, ev |-> sv]
    ELSE LET r == Folder_add(st, str("attn_sv_f"), <<q, other[i], sv>>)
         IN attn_seq(r.st, q, other, i + 1, r.ev)

\* seq_sigmoid_attn_embed(folder, xs, sv_init, ln, input_dropout, conclu_pos)
seq_sigmoid_attn_embed(st, xs, sv_init, ln, input_dropout, conclu_pos) ==
    LET rx == IF input_dropout THEN dropout_xs(st, xs, 1)
              ELSE [st |-> st, xs |-> xs]
        go == get_other(rx.xs, conclu_pos)
        rq == Folder_add(rx.st, str("attn_q_f"), <<go.item>>)
        rs == Folder_add(rq.st, str("attn_identity"), <<sv_init>>)
    IN attn_seq(rs.st, rq.ev, go.other, 1, rs.ev)

\* ---- TacStModel.__init__
\* seq_args, the keyword arguments of every sequence model
seq_args(cfg) ==
    [get_hiddens |-> FALSE, ln |-> cfg.ln, input_dropout |-> cfg.input_dropout,
     conclu_pos |-> cfg.conclu_pos]

\* the parameters of the two sequence models, in order
seq_embed_params ==
    <<"name", "folder", "xs", "init", "get_hiddens", "ln", "input_dropout",
      "conclu_pos">>

seq_sigmoid_attn_embed_params ==
    <<"folder", "xs", "sv_init", "ln", "input_dropout", "conclu_pos">>

\* f(a1, ..., an, **kwargs): the keywords must be exactly the parameters the
\* positional arguments left unbound, or the call raises TypeError
py_call_binds(params, npos, kwargs) ==
    DOMAIN kwargs = {params[i] : i \in (npos + 1)..Len(params)}

\* name: "_lstm" for the LSTM cell, "" for the default GRU cell
cell_name(cfg) == IF cfg.lstm THEN str("_lstm") ELSE str("")

\* self.ast_emb_func(folder, xs)
ast_emb_func(st, xs) ==
    LET a == seq_args(st.cfg)
        name == IF st.cfg.treelstm THEN str("ast_tree")
                ELSE str("ast") \o cell_name(st.cfg)
    IN IF Raised(st) THEN [st |-> st, ev |-> NoValue]
       ELSE IF ~py_call_binds(seq_embed_params, 4, a) THEN Raise(st, "TypeError")
       ELSE seq_embed(name, st, xs, Param("ast_cell_init_state"),
                      a.get_hiddens, a.ln, a.input_dropout, a.conclu_pos)

\* self.ctx_emb_func(folder, xs)
ctx_emb_func(st, xs) ==
    LET a == seq_args(st.cfg)
        name == IF st.cfg.treelstm THEN str("ctx_tree")
                ELSE str("ctx") \o cell_name(st.cfg)
    IN IF Raised(st) THEN [st |-> st, ev |-> NoValue]
       ELSE IF st.cfg.treelstm \/ ~st.cfg.attention
       THEN IF ~py_call_binds(seq_embed_params, 4, a) THEN Raise(st, "TypeError")
            ELSE seq_embed(name, st, xs, Param("ctx_cell_init_state"),
                           a.get_hiddens, a.ln, a.input_dropout, a.conclu_pos)
       ELSE IF ~py_call_binds(seq_sigmoid_attn_embed_params, 3, a)
       THEN Raise(st, "TypeError")
       ELSE seq_sigmoid_attn_embed(st, xs, Param("attn_sv_init"),
                                   a.ln, a.input_dropout, a.conclu_pos)

\* TacStModel.mask(folder, xs): the first element is the conclusion (concl_id
\* is a tensor of ones), the rest the context (state_id is a tensor of zeros)
RECURSIVE mask(_, _, _, _)
mask(st, xs, i, projs) ==
    IF i > Len(xs) THEN [st |-> st, evs |-> projs]
    ELSE LET ident == IF i = 1 THEN Tensor(1) ELSE Tensor(0)
             r == Folder_add(st, str("proj_f"), <<xs[i], ident>>)
         IN mask(r.st, xs, i + 1, Append(projs, r.ev))

\* TacStModel.ctx_func(folder, *tacst_evs), which is TacStModel.pred
ctx_func(st, tacst_evs) ==
    LET rm == mask(st, tacst_evs, 1, <<>>)
        xs == IF st.cfg.conclu_pos # 0
              THEN SubSeq(rm.evs, 2, Len(rm.evs)) \o SubSeq(rm.evs, 1, 1)
              ELSE rm.evs
        rx == ctx_emb_func(rm.st, xs)
    IN IF Raised(st) THEN [st |-> st, ev |-> NoValue]
       ELSE Folder_add(rx.st, str("final_f"), <<rx.ev>>)

\* ---- the nodes folded (coq.ast and coq.glob_constr); c.tag names the node,
\* two occurrences carry the same tag exactly when they are the same node, so
\* the node stands for its tag
RelExp(idx) == [typ |-> "RelExp", idx |-> idx]

ProdExp(name, ty1, ty2) == [typ |-> "ProdExp", name |-> name, ty1 |-> ty1, ty2 |-> ty2]

LambdaExp(name, ty, c) == [typ |-> "LambdaExp", name |-> name, ty |-> ty, c |-> c]

ConstRef(const) == [typ |-> "ConstRef", const |-> const]

VarRef(x) == [typ |-> "VarRef", x |-> x]

\* GApp with the implicit-argument marks of its arguments
GAppOf(g, gs, iargs) == [typ |-> "GApp", g |-> g, gs |-> gs, iargs |-> iargs]

GLambda(name, g_ty, g_bod) == [typ |-> "GLambda", name |-> name, g_ty |-> g_ty, g_bod |-> g_bod]

GProd(name, g_ty, g_bod) == [typ |-> "GProd", name |-> name, g_ty |-> g_ty, g_bod |-> g_bod]

\* a clause: cps[i] is what the i-th pattern's get_names() returns
CasesClause(cps, g) == [cps |-> cps, g |-> g]

GCases(ccs) == [typ |-> "GCases", ccs |-> ccs]

\* ---- environment calls on the threaded state
env_local_extend(st, env, name, value) ==
    IF Raised(st) THEN [st |-> st, env |-> env]
    ELSE LET x == FastEnv_local_extend(st.D, st.L, env, name, value)
         IN [st |-> [st EXCEPT !.D = x.dicts, !.L = x.lists], env |-> x.ret]

env_ctx_extend(st, env, name, value) ==
    IF Raised(st) THEN [st |-> st, env |-> env]
    ELSE LET x == FastEnv_ctx_extend(st.D, st.L, env, name, value)
         IN [st |-> [st EXCEPT !.D = x.dicts, !.L = x.lists], env |-> x.ret]

\* Folder.lookup(lt)
Folder_lookup(st, lt) == Folder_add(st, str("embed_lookup_f"), <<Tensor(lt)>>)

\* fold_const_name(const): the row fix_id('const', const_to_idx[const])
fold_const_name(st, const) == Folder_lookup(st, <<"const", const>>)

\* fold_local_var(ty): a fresh placeholder
fold_local_var(st) == Folder_add(st, str("var_normal"), <<Tensor("init_D")>>)

\* TacStFolder._fold(key, args); at is where in the tactic state the node is
TacStFolder_fold(st, key, args, at) ==
    LET r == ast_emb_func(st, args)
    IN IF Raised(r.st) THEN r
       ELSE [st |-> Logged([r.st EXCEPT !.folded = MapPut(@, key, r.ev)],
                           [ev |-> "fold", key |-> key, emb |-> r.ev, at |-> at]),
             ev |-> r.ev]

\* self._fold(key, [...]) once the arguments a.evs are folded
TacStFolder_fold_args(a, key, at) == TacStFolder_fold(a.st, key, a.evs, at)

\* a cache that is never consulted
CacheHit_never(st, key) == FALSE
\* the cache check that opens _fold_ast and _fold_mid
CacheHit(st, key) == st.cfg.f_sharing /\ key \in DOMAIN st.folded

Cached(st, key, at) ==
    [st |-> Logged(st, [ev |-> "hit", key |-> key, emb |-> st.folded[key], at |-> at]),
     ev |-> st.folded[key]]

\* env.lookup_id(Name(x)) and env.lookup_rel(idx) with the result logged
Lookup(st, res, by, name, at) ==
    Logged(st, [ev |-> "lookup", at |-> at, by |-> by, name |-> name, res |-> res])

\* ---- TacStFolder._fold_ast(env, kind, c) on RelExp, VarExp, ConstExp,
\* AppExp, ProdExp and LambdaExp
\* the children of a node in the order they are folded; the i-th child of the
\* node at `at` is at Append(at, i), the head of an application at
\* Append(at, 0)
ast_kids(c, at) ==
    IF c.typ = "AppExp"
    THEN [i \in 1..(Len(c.cs) + 1) |->
            [c |-> IF i = 1 THEN c.c ELSE c.cs[i - 1], at |-> Append(at, i - 1)]]
    ELSE IF c.typ = "ProdExp"
    THEN <<[c |-> c.ty1, at |-> Append(at, 1)], [c |-> c.ty2, at |-> Append(at, 2)]>>
    ELSE IF c.typ = "LambdaExp"
    THEN <<[c |-> c.ty, at |-> Append(at, 1)], [c |-> c.c, at |-> Append(at, 2)]>>
    ELSE <<>>

\* self.model.<attr>, the first argument of _fold for each kind of node
ast_head(c) ==
    IF c.typ = "AppExp" THEN Param("app")
    ELSE IF c.typ = "ProdExp" THEN Param("prod")
    ELSE IF c.typ = "LambdaExp" THEN Param("lam")
    ELSE IF c.typ = "ConstExp" THEN Param("const")
    ELSE IF c.typ = "VarExp" THEN Param("var")
    ELSE Param("rel")

IsBinder(c) == c.typ \in {"ProdExp", "LambdaExp", "GLambda", "GProd"}

\* the arguments of _fold for ConstExp, VarExp and RelExp
ast_leaf_args(st, env, c, at) ==
    IF c.typ = "ConstExp"
    THEN LET r == fold_const_name(st, c.const)
         IN [st |-> r.st, evs |-> <<ast_head(c), r.ev>>]
    ELSE LET l == IF c.typ = "VarExp" THEN FastEnv_lookup_id(st.D, env, c.x)
                  ELSE FastEnv_lookup_rel(st.L, env, c.idx - 1)
             s1 == IF c.typ = "VarExp" THEN Lookup(st, l, "id", c.x, at)
                   ELSE Lookup(st, l, "rel", c.idx, at)
         IN IF l[1] # "ok" THEN [st |-> [s1 EXCEPT !.exc = l[1]], evs |-> <<>>]
            ELSE [st |-> s1, evs |-> <<ast_head(c), l[2]>>]

RECURSIVE TacStFolder_fold_ast(_, _, _, _)
\* the children of c folded left to right under env; the body of a ProdExp or
\* LambdaExp (its second child) under env.local_extend(c.name, ev_x)
RECURSIVE fold_ast_kids(_, _, _, _, _, _, _)
\* r is the i-th child folded, from state st; on to the next child
ast_kid_folded(r, st, env, c, kids, i, evs, ev_x) ==
    LET s1 == IF IsBinder(c) /\ i = 2
              THEN Logged(r.st, [ev |-> "bound", at |-> kids[i].at, name |-> c.name,
                                 value |-> ev_x,
                                 before |-> Lookups("FastEnv", st.D, st.L, env),
                                 after |-> Lookups("FastEnv", r.st.D, r.st.L, env)])
              ELSE r.st
    IN fold_ast_kids(s1, env, c, kids, i + 1, Append(evs, r.ev), ev_x)

fold_ast_kids(st, env, c, kids, i, evs, ev_x) ==
    IF i > Len(kids) THEN [st |-> st, evs |-> evs]
    ELSE LET x == IF IsBinder(c) /\ i = 2 THEN env_local_extend(st, env, c.name, ev_x)
                  ELSE [st |-> st, env |-> env]
         IN ast_kid_folded(TacStFolder_fold_ast(x.st, x.env, kids[i].c, kids[i].at),
                           st, env, c, kids, i, evs, ev_x)

TacStFolder_fold_ast(st, env, c, at) ==
    IF Raised(st) THEN [st |-> st, ev |-> NoValue]
    ELSE IF CacheHit(st, c) THEN Cached(st, c, at)
    ELSE LET r0 == IF IsBinder(c) THEN fold_local_var(st) ELSE [st |-> st, ev |-> NoValue]
         IN TacStFolder_fold_args(
                IF c.typ \in {"AppExp", "ProdExp", "LambdaExp"}
                THEN fold_ast_kids(r0.st, env, c, ast_kids(c, at), 1, <<ast_head(c)>>, r0.ev)
                ELSE ast_leaf_args(st, env, c, at),
                c, at)

\* ---- TacStFolder._fold_mid(env, gc) on GRef, GVar, GApp, GLambda, GProd
\* and GCases
\* for cp in cc.cps: for name in cp.get_names(): every name in order
RECURSIVE clause_names(_, _)
clause_names(cps, i) ==
    IF i > Len(cps) THEN <<>> ELSE cps[i] \o clause_names(cps, i + 1)

\* the arguments of a GApp that are folded: all with f_useiarg, otherwise
\* those whose iarg is None; zip stops at the shorter list
RECURSIVE app_kids(_, _, _, _)
app_kids(cfg, gc, at, i) ==
    IF i > Len(gc.gs) \/ i > Len(gc.iargs) THEN <<>>
    ELSE (IF cfg.f_useiarg \/ gc.iargs[i] = "None"
          THEN <<[c |-> gc.gs[i], at |-> Append(at, i), names |-> <<>>]>> ELSE <<>>)
         \o app_kids(cfg, gc, at, i + 1)

\* the children of a node in the order they are folded, each with the names
\* bound just before it is folded (the pattern names of a clause)
mid_kids(cfg, gc, at) ==
    IF gc.typ = "GApp"
    THEN <<[c |-> gc.g, at |-> Append(at, 0), names |-> <<>>]>> \o app_kids(cfg, gc, at, 1)
    ELSE IF gc.typ \in {"GLambda", "GProd"}
    THEN <<[c |-> gc.g_ty, at |-> Append(at, 1), names |-> <<>>],
           [c |-> gc.g_bod, at |-> Append(at, 2), names |-> <<>>]>>
    ELSE IF gc.typ = "GCases"
    THEN [i \in 1..Len(gc.ccs) |->
            [c |-> gc.ccs[i].g, at |-> Append(at, i),
             names |-> clause_names(gc.ccs[i].cps, 1)]]
    ELSE <<>>

mid_head(gc) ==
    IF gc.typ = "GApp" THEN Param("gapp")
    ELSE IF gc.typ = "GLambda" THEN Param("glambda")
    ELSE IF gc.typ = "GProd" THEN Param("gprod")
    ELSE IF gc.typ = "GCases" THEN Param("gcases")
    ELSE IF gc.typ = "GVar" THEN Param("gvar")
    ELSE IF gc.gref.typ = "VarRef" THEN Param("gref_var")
    ELSE Param("gref_const")

\* ev_x = self.fold_local_var(None); env = env.local_extend(name, ev_x)
RECURSIVE bind_names(_, _, _, _, _)
bind_names(st, env, names, i, at) ==
    IF i > Len(names) \/ Raised(st) THEN [st |-> st, env |-> env]
    ELSE LET r == fold_local_var(st)
             x == env_local_extend(r.st, env, names[i], r.ev)
             s1 == Logged(x.st, [ev |-> "pattern", at |-> at, name |-> names[i],
                                 value |-> r.ev])
         IN bind_names(s1, x.env, names, i + 1, at)

\* the arguments of _fold for GVar and GRef: a variable that is not found gets
\* a fresh placeholder (try: env.lookup_id(Name(x)) except NotFound:
\* fold_local_var(None))
mid_leaf_args(st, env, gc, at) ==
    IF gc.typ = "GRef" /\ gc.gref.typ = "ConstRef"
    THEN LET r == fold_const_name(st, gc.gref.const)
         IN [st |-> r.st, evs |-> <<mid_head(gc), r.ev>>]
    ELSE LET x == IF gc.typ = "GVar" THEN gc.x ELSE gc.gref.x
             l == FastEnv_lookup_id(st.D, env, x)
             r == IF l[1] = "ok" THEN [st |-> st, ev |-> l[2]] ELSE fold_local_var(st)
         IN [st |-> Lookup(r.st, l, "id", x, at), evs |-> <<mid_head(gc), r.ev>>]

RECURSIVE TacStFolder_fold_mid(_, _, _, _)
\* the children of gc folded left to right.  GLambda and GProd fold their
\* body under env.local_extend(gc.name, ev_x); GCases assigns each extension
\* to env, the variable the loop over the clauses goes on with
RECURSIVE fold_mid_kids(_, _, _, _, _, _, _)
\* r is the i-th child folded; on to the next child under env
mid_kid_folded(r, env, gc, kids, i, evs, ev_x) ==
    fold_mid_kids(r.st, env, gc, kids, i + 1, Append(evs, r.ev), ev_x)

fold_mid_kids(st, env, gc, kids, i, evs, ev_x) ==
    IF i > Len(kids) THEN [st |-> st, evs |-> evs]
    ELSE LET x == IF IsBinder(gc) /\ i = 2 THEN env_local_extend(st, env, gc.name, ev_x)
                  ELSE bind_names(st, env, kids[i].names, 1, kids[i].at)
         IN mid_kid_folded(TacStFolder_fold_mid(x.st, x.env, kids[i].c, kids[i].at),
                           IF gc.typ = "GCases" THEN x.env ELSE env,
                           gc, kids, i, evs, ev_x)

TacStFolder_fold_mid(st, env, gc, at) ==
    IF Raised(st) THEN [st |-> st, ev |-> NoValue]
    ELSE IF CacheHit(st, gc) THEN Cached(st, gc, at)
    ELSE LET r0 == IF IsBinder(gc) THEN fold_local_var(st) ELSE [st |-> st, ev |-> NoValue]
         IN TacStFolder_fold_args(
                IF gc.typ \in {"GApp", "GLambda", "GProd", "GCases"}
                THEN fold_mid_kids(r0.st, env, gc, mid_kids(st.cfg, gc, at), 1,
                                   <<mid_head(gc)>>, r0.ev)
                ELSE mid_leaf_args(st, env, gc, at),
                gc, at)

\* ---- TacStFolder.fold_tacst
\* self.fold_ast: _fold_mid when the model is mid-level, else _fold_ast
fold_ast(st, env, c, at) ==
    IF st.cfg.f_mid THEN TacStFolder_fold_mid(st, env, c, at)
    ELSE TacStFolder_fold_ast(st, env, c, at)

\* the loop of fold_ctx; ctx[i].ty is the node decode(typ_idx) returns
RECURSIVE fold_ctx_loop(_, _, _, _, _)
\* r is the i-th type folded: env = env.ctx_extend(Name(ident), folded)
ctx_ident_folded(r, env, ctx, i, foldeds) ==
    LET x == env_ctx_extend(r.st, env, ctx[i].ident, r.ev)
        s1 == Logged(x.st, [ev |-> "ctx", at |-> <<i>>, name |-> ctx[i].ident,
                            value |-> r.ev])
    IN fold_ctx_loop(s1, x.env, ctx, i + 1, Append(foldeds, r.ev))

fold_ctx_loop(st, env, ctx, i, foldeds) ==
    IF i > Len(ctx) THEN [st |-> st, env |-> env, evs |-> foldeds]
    ELSE ctx_ident_folded(fold_ast(st, env, ctx[i].ty, <<i>>), env, ctx, i, foldeds)

\* fold_ctx(gid, ctx), from env = FastEnv({}, {}, [], [])
fold_ctx(st, ctx) ==
    LET D == st.D \o <<EmptyMap, EmptyMap>>
        L == st.L \o <<<<>>, <<>>>>
        env == [ctx_env |-> Len(st.D) + 1, local_env |-> Len(st.D) + 2,
                ctx_order |-> Len(st.L) + 1, local_order |-> Len(st.L) + 2]
    IN fold_ctx_loop([st EXCEPT !.D = D, !.L = L], env, ctx, 1, <<>>)

\* fold_tacst(tacst_pt): the context, the conclusion (at <<0>>), the head
\* self.model.pred(self.folder, folded, *foldeds)
pred(r, foldeds) == ctx_func(r.st, <<r.ev>> \o foldeds)

\* fold_concl(gid, env, concl_idx) and the head, rc being what fold_ctx did
fold_concl(rc, tacst) == pred(fold_ast(rc.st, rc.env, tacst.concl, <<0>>), rc.evs)

fold_tacst(st, tacst) == fold_concl(fold_ctx(st, tacst.ctx), tacst)

\* ---- actions
FoldInit ==
    /\ f_cfg = NoValue
    /\ max_batch_ops = EmptyMap
    /\ f_gen = 0
    /\ f_ops = <<>>
    /\ folded = EmptyMap
    /\ f_folds = <<>>
    /\ f_log = <<>>
    /\ f_exc = "none"
    /\ f_tacst = NoValue
    /\ f_ret = NoValue
    /\ f_calls = <<>>

\* model = TacStModel(...); folder = Folder(model, ...);
\* tacst_folder = TacStFolder(model, tactr, folder)
NewTacStFolder(cfg) ==
    /\ f_calls = <<>>
    /\ f_cfg' = cfg
    /\ max_batch_ops' = Folder_max_batch_ops(cfg.cuda)
    /\ f_gen' = 1
    /\ f_ops' = <<>>
    /\ folded' = EmptyMap
    /\ f_calls' = <<"init">>
    /\ UNCHANGED <<f_folds, f_log, f_exc, f_tacst, f_ret>>
    /\ UNCHANGED <<decVars, envVars, tacVars, rwVars>>

\* what a fold_tacst of tacst that ended as r leaves behind
Folded(r, tacst) ==
    /\ f_ops' = r.st.ops
    /\ f_folds' = Append(f_folds, [tacst |-> tacst, gen |-> f_gen, from |-> Len(f_ops),
                                   to |-> Len(r.st.ops)])
    /\ folded' = r.st.folded
    /\ f_log' = r.st.log
    /\ f_exc' = r.st.exc
    /\ f_ret' = r.ev

\* tacst_folder.fold_tacst(tacst_pt)
FoldTacst(tacst) ==
    /\ f_calls # <<>>
    /\ Len(f_calls) <= MaxCalls
    /\ Folded(fold_tacst([cfg |-> f_cfg, gen |-> f_gen, ops |-> f_ops, D |-> <<>>,
                           L |-> <<>>, folded |-> folded, log |-> <<>>, exc |-> "none"],
                          tacst), tacst)
    /\ f_tacst' = tacst
    /\ f_calls' = Append(f_calls, "fold_tacst")
    /\ UNCHANGED <<f_cfg, max_batch_ops, f_gen>>
    /\ UNCHANGED <<decVars, envVars, tacVars, rwVars>>

\* tacst_folder.reset()
TacStFolder_reset ==
    /\ f_calls # <<>>
    /\ Len(f_calls) <= MaxCalls
    /\ folded' = EmptyMap
    /\ f_calls' = Append(f_calls, "reset")
    /\ UNCHANGED <<f_cfg, max_batch_ops, f_gen, f_ops, f_folds, f_log, f_exc, f_tacst, f_ret>>
    /\ UNCHANGED <<decVars, envVars, tacVars, rwVars>>

\* folder.reset(): a new Fold (or Unfold) object
Folder_reset ==
    /\ f_calls # <<>>
    /\ Len(f_calls) <= MaxCalls
    /\ f_gen' = f_gen + 1
    /\ f_ops' = <<>>
    /\ f_calls' = Append(f_calls, "Folder.reset")
    /\ UNCHANGED <<f_cfg, max_batch_ops, folded, f_folds, f_log, f_exc, f_tacst, f_ret>>
    /\ UNCHANGED <<decVars, envVars, tacVars, rwVars>>

\* ---- the configurations and tactic states of each specification
DefaultCfg ==
    [cuda |-> FALSE, f_fold |-> TRUE, f_sharing |-> TRUE, f_mid |-> FALSE,
     f_useiarg |-> TRUE, treelstm |-> FALSE, lstm |-> FALSE, attention |-> FALSE,
     ln |-> FALSE, input_dropout |-> FALSE, conclu_pos |-> 0]

TacSt(ctx, conclusion) == [ctx |-> ctx, concl |-> conclusion]

CtxEntry(ident, ty) == [ident |-> ident, ty |-> ty]

\* the head: every cell variant, pooling, layer norm, dropout and conclusion
\* position, on a context of 0..MaxCtx entries of distinct constant types
HeadCfgs ==
    {[DefaultCfg EXCEPT !.cuda = cu, !.treelstm = tr, !.lstm = ls, !.attention = at,
                        !.ln = ln, !.input_dropout = dr, !.conclu_pos = cp] :
        cu \in BOOLEAN, tr \in BOOLEAN, ls \in BOOLEAN, at \in BOOLEAN,
        ln \in BOOLEAN, dr \in BOOLEAN, cp \in (0 - MaxCtx)..MaxCtx}

HeadTacSts ==
    {TacSt([i \in 1..n |-> CtxEntry(i, ConstExp(i))], ConstExp(0)) : n \in 0..MaxCtx}

FoldHeadNext ==
    \/ (f_calls = <<>> /\ \E cfg \in HeadCfgs : NewTacStFolder(cfg))
    \/ (Len(f_calls) = 1 /\ \E tacst \in HeadTacSts : FoldTacst(tacst))
\* ---- folding trees: kernel terms of up to MaxAstNodes nodes and mid-level
\* terms with Cases of up to MaxClauses clauses
KernelLeaves == {ConstExp(0), VarExp(1), RelExp(1)}

RECURSIVE KernelTermsOfSize(_)
KernelTermsOfSize(n) ==
    IF n = 1 THEN KernelLeaves
    ELSE LET two == {<<i, n - 1 - i>> : i \in 1..(n - 2)}
             three == {<<i, j, n - 1 - i - j>> : i \in 1..(n - 3), j \in 1..(n - 3)}
             Binary(s) == UNION {{AppExp(f, <<a>>), ProdExp(1, f, a), LambdaExp(1, f, a)} :
                                    f \in KernelTermsOfSize(s[1]),
                                    a \in KernelTermsOfSize(s[2])}
             Ternary(s) == {AppExp(f, <<a, b>>) :
                               f \in KernelTermsOfSize(s[1]), a \in KernelTermsOfSize(s[2]),
                               b \in KernelTermsOfSize(s[3])}
         IN UNION {Binary(s) : s \in two}
            \cup UNION {Ternary(s) : s \in {t \in three : t[3] >= 1}}

KernelContexts ==
    {<<>>, <<CtxEntry(1, ConstExp(0))>>,
     <<CtxEntry(1, ConstExp(0)), CtxEntry(2, VarExp(1))>>}

KernelTacSts ==
    {TacSt(ctx, c) : ctx \in KernelContexts,
                     c \in UNION {KernelTermsOfSize(n) : n \in 1..MaxAstNodes}}

MidLeaves == {GVar(x) : x \in Idents} \cup {GRef(ConstRef(0)), GRef(VarRef(1))}

\* the names of the patterns of a clause
ClausePatterns == {<<>>, <<<<1>>>>, <<<<1>>, <<2>>>>}

Clauses == {CasesClause(cps, g) : cps \in ClausePatterns, g \in MidLeaves}

RECURSIVE ClauseLists(_)
ClauseLists(n) ==
    IF n = 0 THEN {<<>>}
    ELSE {Append(ccs, cc) : ccs \in ClauseLists(n - 1), cc \in Clauses}

CasesTerms == {GCases(ccs) : ccs \in UNION {ClauseLists(n) : n \in 1..MaxClauses}}

MidTerms ==
    CasesTerms
    \cup {GLambda(1, GRef(ConstRef(0)), GCases(<<cc>>)) : cc \in Clauses}
    \cup {GProd(2, GVar(1), g) : g \in MidLeaves}
    \cup {GAppOf(GRef(ConstRef(0)), <<GVar(1), GCases(<<cc>>)>>, iargs) :
            cc \in Clauses, iargs \in {<<"None", "None">>, <<"impl", "None">>}}

MidTacSts ==
    {TacSt(ctx, g) : ctx \in {<<>>, <<CtxEntry(1, GRef(ConstRef(0)))>>}, g \in MidTerms}

TreeCfgs ==
    {[DefaultCfg EXCEPT !.f_sharing = sh] : sh \in BOOLEAN}
    \cup {[DefaultCfg EXCEPT !.f_sharing = sh, !.f_mid = TRUE, !.f_useiarg = ia] :
            sh \in BOOLEAN, ia \in BOOLEAN}

FoldTreeNext ==
    \/ (f_calls = <<>> /\ \E cfg \in TreeCfgs : NewTacStFolder(cfg))
    \/ (Len(f_calls) = 1 /\ ~f_cfg.f_mid /\ \E tacst \in KernelTacSts : FoldTacst(tacst))
    \/ (Len(f_calls) = 1 /\ f_cfg.f_mid /\ \E tacst \in MidTacSts : FoldTacst(tacst))

\* ---- a folder used for several proof states
CallsTacSts ==
    {TacSt(ctx, c) : ctx \in {<<>>, <<CtxEntry(1, ConstExp(0))>>},
                     c \in {ConstExp(0), ConstExp(1), AppExp(ConstExp(1), <<ConstExp(0)>>)}}

FoldCallsNext ==
    \/ (f_calls = <<>> /\ \E sh \in BOOLEAN :
            NewTacStFolder([DefaultCfg EXCEPT !.f_sharing = sh]))
    \/ (f_calls # <<>> /\ \E tacst \in CallsTacSts : FoldTacst(tacst))
    \/ TacStFolder_reset
    \/ Folder_reset

\* ------------------------------------------------------------------------
\* Claims on the cap table and the prediction head

\* s ends with suf
EndsWith(s, suf) ==
    Len(suf) <= Len(s) /\ SubSeq(s, Len(s) - Len(suf) + 1, Len(s)) = suf

Constructed == f_calls # <<>>

FoldCalled == Len(f_calls) > 1 /\ f_calls[Len(f_calls)] = "fold_tacst"

\* C21: without accelerated execution every recurrent-cell operation seq_embed
\* enqueues is capped at 32 in the cap table, embed_lookup_f at 128, proj_f
\* and final_f at 32; with accelerated execution the table is empty.
C21_CellOpsCapped ==
    Constructed =>
        IF f_cfg.cuda THEN DOMAIN max_batch_ops = {}
        ELSE /\ \A i \in DOMAIN f_ops :
                    EndsWith(f_ops[i].op, str("_cell_f")) =>
                        /\ f_ops[i].op \in DOMAIN max_batch_ops
                        /\ max_batch_ops[f_ops[i].op] = 32
             /\ {str("embed_lookup_f"), str("proj_f"), str("final_f")} \subseteq DOMAIN max_batch_ops
             /\ max_batch_ops[str("embed_lookup_f")] = 128
             /\ max_batch_ops[str("proj_f")] = 32
             /\ max_batch_ops[str("final_f")] = 32

\* the operation a handle stands for
OpAt(h) == f_ops[h.idx]

\* x, or what x is the input dropout of
Undropped(h) == IF OpAt(h).op = str("input_dropout_f") THEN OpAt(h).args[1] ELSE h

\* h is the projection of embedding e tagged v (1 the conclusion, 0 context)
ProjOf(h, v) ==
    /\ OpAt(Undropped(h)).op = str("proj_f")
    /\ OpAt(Undropped(h)).args[2] = Tensor(v)

\* the operations called name, in the order enqueued
OpsNamed(name) ==
    SelectSeq([i \in 1..Len(f_ops) |-> f_ops[i]], LAMBDA o : o.op = name)

\* the embeddings of the context entries, in context order
CtxFolded == SelectSeq(f_log, LAMBDA e : e.ev = "ctx")

\* C25: with attention pooling, whatever the conclusion position and the
\* number of context elements, attn_q_f is applied to the conclusion's
\* projection (tagged 1) and attn_sv_f to the projections of the context
\* elements (tagged 0), each once and in context order.
C25_QueryIsConclusion ==
    (FoldCalled /\ f_cfg.attention /\ ~f_cfg.treelstm) =>
        LET qs == OpsNamed(str("attn_q_f"))
            svs == OpsNamed(str("attn_sv_f"))
        IN /\ Len(qs) = 1
           /\ ProjOf(qs[1].args[1], 1)
           /\ Len(svs) = Len(CtxFolded)
           /\ \A k \in 1..Len(svs) :
                 /\ ProjOf(svs[k].args[2], 0)
                 /\ OpAt(Undropped(svs[k].args[2])).args[1] = CtxFolded[k].value
\* ------------------------------------------------------------------------
\* Claims on the memoization of folded nodes

\* the children the fold visits below a node of the last tactic state
KidsOf(c) == IF f_cfg.f_mid THEN mid_kids(f_cfg, c, <<>>) ELSE ast_kids(c, <<>>)

\* how many times node key occurs in c, c itself included
RECURSIVE OccIn(_, _)
RECURSIVE OccInKids(_, _, _)
OccInKids(kids, i, key) ==
    IF i > Len(kids) THEN 0 ELSE OccIn(kids[i].c, key) + OccInKids(kids, i + 1, key)

OccIn(c, key) == (IF c = key THEN 1 ELSE 0) + OccInKids(KidsOf(c), 1, key)

\* the nodes of c
RECURSIVE NodesOf(_)
NodesOf(c) == {c} \cup UNION {NodesOf(KidsOf(c)[i].c) : i \in DOMAIN KidsOf(c)}

\* the types of the context and the conclusion of the last tactic state
TacStRoots == <<f_tacst.concl>> \o [i \in DOMAIN f_tacst.ctx |-> f_tacst.ctx[i].ty]

TacStNodes == UNION {NodesOf(TacStRoots[i]) : i \in DOMAIN TacStRoots}

RECURSIVE TacStOcc(_, _)
TacStOcc(key, i) ==
    IF i > Len(TacStRoots) THEN 0 ELSE OccIn(TacStRoots[i], key) + TacStOcc(key, i + 1)

\* the entries of the log of the last fold_tacst that are of kind ev
LogOf(ev) == {i \in DOMAIN f_log : f_log[i].ev = ev}

FoldsOf(key) == Cardinality({i \in LogOf("fold") : f_log[i].key = key})

\* C22: with sharing, within one fold_tacst each node tag is folded at most
\* once and every later encounter, in a context type or the conclusion and
\* under any environment, returns the embedding it was folded to; without
\* sharing nothing comes from the cache and every encounter is folded.
C22_FoldedOncePerTag ==
    (FoldCalled /\ Len(f_calls) = 2) =>
        IF f_cfg.f_sharing
        THEN /\ \A key \in TacStNodes : FoldsOf(key) <= 1
             /\ \A i \in LogOf("hit") :
                   \E j \in LogOf("fold") :
                       j < i /\ f_log[j].key = f_log[i].key /\ f_log[j].emb = f_log[i].emb
        ELSE /\ LogOf("hit") = {}
             /\ \A key \in TacStNodes :
                   /\ FoldsOf(key) <= TacStOcc(key, 1)
                   /\ f_exc = "none" => FoldsOf(key) = TacStOcc(key, 1)

\* a node folded in a context type is met again inside the conclusion, below
\* its root, and comes from the cache
C22_Witness ==
    /\ FoldCalled /\ Len(f_calls) = 2 /\ f_cfg.f_sharing
    /\ \E i \in LogOf("hit") :
          /\ f_log[i].at[1] = 0 /\ Len(f_log[i].at) > 1
          /\ \E j \in LogOf("fold") : f_log[j].key = f_log[i].key /\ f_log[j].at[1] = 1
\* ------------------------------------------------------------------------
\* Claims on the scope of local extensions

\* p is a prefix of q
IsPrefixOf(p, q) == Len(p) <= Len(q) /\ SubSeq(q, 1, Len(p)) = p

\* the binders whose body holds the place `at`, the innermost last: a "bound"
\* entry is logged at the place of the body
BindersOver(at) == {i \in LogOf("bound") : IsPrefixOf(f_log[i].at, at)}

\* the binders over `at` that are at least as deep as binder i
InnerOf(i, at) == {j \in BindersOver(at) : Len(f_log[j].at) >= Len(f_log[i].at)}

\* the context entries before the entry a place belongs to (all of them for
\* the conclusion, which is at <<0>>)
CtxBefore(at) == {i \in LogOf("ctx") : at[1] = 0 \/ f_log[i].at[1] < at[1]}

\* what a lookup at `at` resolves to in the scope the term is written in: by
\* name the innermost binder of that name over it, else the last context
\* entry of that name; by position the idx-th binder over it counted from
\* the innermost
LexicalId(name, at) ==
    LET bs == {i \in BindersOver(at) : f_log[i].name = name}
        cs == {i \in CtxBefore(at) : f_log[i].name = name}
    IN IF bs # {}
       THEN <<"ok", f_log[CHOOSE i \in bs : \A j \in bs : Len(f_log[j].at) <= Len(f_log[i].at)].value>>
       ELSE IF cs # {}
       THEN <<"ok", f_log[CHOOSE i \in cs : \A j \in cs : j <= i].value>>
       ELSE <<"NotFound", 0>>

LexicalRel(idx, at) ==
    LET bs == {i \in BindersOver(at) : Cardinality(InnerOf(i, at)) = idx}
    IN IF bs # {} THEN <<"ok", f_log[CHOOSE i \in bs : TRUE].value>>
       ELSE <<"NotFound", 0>>

\* C26: a local extension never leaks: every lookup on E gives after the
\* body of a binder was folded under E.local_extend(x, v) what it gave before,
\* and every variable of the term, in the body or in a sibling subtree,
\* resolves as its place in the term says.
C26_LocalExtendDoesNotLeak ==
    (FoldCalled /\ ~f_cfg.f_mid) =>
        /\ \A i \in LogOf("bound") : f_log[i].before = f_log[i].after
        /\ \A i \in LogOf("lookup") :
              f_log[i].res = IF f_log[i].by = "id"
                             THEN LexicalId(f_log[i].name, f_log[i].at)
                             ELSE LexicalRel(f_log[i].name, f_log[i].at)

\* a binder of x whose body was folded, and after it a variable x in a
\* sibling subtree that resolves to the context entry x
C26_Witness ==
    /\ FoldCalled /\ ~f_cfg.f_mid
    /\ \E b \in LogOf("bound"), l \in LogOf("lookup") :
          /\ b < l
          /\ f_log[l].by = "id" /\ f_log[l].name = f_log[b].name
          /\ ~IsPrefixOf(f_log[b].at, f_log[l].at)
          /\ f_log[l].res[1] = "ok"
          /\ \E u \in LogOf("lookup") : u < b /\ IsPrefixOf(f_log[b].at, f_log[u].at)

\* C27: the names a clause of a Cases node binds are in scope only in that
\* clause's body: no variable in the body of a later clause resolves to the
\* placeholder bound for a pattern of an earlier clause.
C27_ClauseScope ==
    (FoldCalled /\ f_cfg.f_mid) =>
        \A p \in LogOf("pattern"), l \in LogOf("lookup") :
            LET n == Len(f_log[p].at)
            IN (/\ Len(f_log[l].at) >= n
                /\ SubSeq(f_log[l].at, 1, n - 1) = SubSeq(f_log[p].at, 1, n - 1)
                /\ f_log[l].at[n] > f_log[p].at[n])
               => f_log[l].res # <<"ok", f_log[p].value>>
\* ------------------------------------------------------------------------
\* Claims on the cache across proof states

\* the fold_tacst calls that enqueued the operation an embedding stands for
MadeIn(emb) ==
    {k \in DOMAIN f_folds :
        /\ f_folds[k].gen = emb.gen
        /\ f_folds[k].from < emb.idx
        /\ emb.idx <= f_folds[k].to}

\* C23: whatever the sequence of fold_tacst calls on one TacStFolder, the
\* cache never returns, while one proof state is folded, an embedding that
\* was memoized while another proof state was folded; and right after
\* reset() the cache is empty.
C23_NoSharingAcrossProofStates ==
    /\ FoldCalled =>
          \A i \in LogOf("hit") :
              \A k \in MadeIn(f_log[i].emb) : f_folds[k].tacst = f_tacst
    /\ (Constructed /\ f_calls[Len(f_calls)] = "reset") => DOMAIN folded = {}

\* ========================================================================
\* Specifications
\* ========================================================================
Init == DecInit /\ EnvInit /\ TacInit /\ GenInit /\ PolInit /\ SolInit /\ DiffInit /\ PrepInit /\ EqInit /\ RunInit /\ FoldInit

SpecDecode == Init /\ [][DecNext]_vars

SpecEnv == Init /\ [][EnvNext]_vars

SpecTacRoot == Init /\ [][TacRootNext]_vars

SpecTacFlat == Init /\ [][TacFlatNext]_vars

SpecTacHist == Init /\ [][TacHistNext]_vars

SpecTacStats == Init /\ [][TacStatsNext]_vars

SpecGen == Init /\ [][GenNext]_vars

SpecPolicy == Init /\ [][PolNext]_vars

SpecPolicyPass == Init /\ [][PolPassNext]_vars

SpecPolicyRun == Init /\ [][RunNext]_vars

SpecSolver == Init /\ [][SolNext]_vars

SpecDiff == Init /\ [][DiffNext]_vars

SpecPrep == Init /\ [][PrepNext]_vars

SpecAstEq == Init /\ [][EqNext]_vars

SpecFoldHead == Init /\ [][FoldHeadNext]_vars

SpecFoldTree == Init /\ [][FoldTreeNext]_vars

SpecFoldCalls == Init /\ [][FoldCallsNext]_vars

====
